---- MODULE Spec2Model ----
(***************************************************************************)
(* A model of the AgenticGPT decision-execution loop                       *)
(* (src/agentic_gpt/agent/agentic_gpt.py), of the document memory it owns  *)
(* (src/agentic_gpt/agent/memory.py) and of the Action wrapper             *)
(* (src/agentic_gpt/agent/action.py).                                      *)
(*                                                                         *)
(* Python strings are TLA+ strings, Python values are records tagged by    *)
(* their type in field t, a Python dict is a sequence of <<key, value>>    *)
(* pairs in insertion order, and an exception that leaves a function is    *)
(* the field exc of the record the function's operator returns ("" when    *)
(* the function returned normally).                                        *)
(***************************************************************************)
EXTENDS Integers, Sequences, FiniteSets, TLC

VARIABLES
    pc,             \* where run() is: "ready", "running", "returned", "crashed"
    steps,          \* the local variable steps of run()
    requested,      \* number of get_completion calls made by run()
    actions_taken,  \* self.actions_taken
    context,        \* self.context
    memory,         \* self.memory: documents, document_store, router_index
    calls,          \* every invocation of an action's callable, in order
    trace,          \* what each iteration of run() consumed and did, in order
    stored,         \* the action results written to the memory: action and name
    objective,      \* self.objective
    saved,          \* the action log file on disk, NoFile when there is none
    ops,            \* the calls of save_actions_taken, from_saved_actions, replay
    probe,          \* a function applied on its own: its inputs and its result
    dicts,          \* the dictionary objects memories are built on, by identity
    agents          \* the memories of the agents of one process, by agent

vars == <<pc, steps, requested, actions_taken, context, memory, calls, trace,
          stored, objective, saved, ops, probe, dicts, agents>>

\* what run() never touches
outside == <<objective, saved, ops, probe, dicts, agents>>

(***************************************************************************)
(* Bounds.                                                                 *)
(***************************************************************************)
\* self.max_steps of the agent under check (the constructor's max_steps)
MaxSteps == 3

\* body(v) with v evaluated once
With(v, body(_)) == CHOOSE x \in {body(r) : r \in {v}} : TRUE

(***************************************************************************)
(* Python values.                                                          *)
(***************************************************************************)
PyNone == [t |-> "none"]
PyStr(s) == [t |-> "str", s |-> s]
PyInt(n) == [t |-> "int", n |-> n]
PyBool(b) == [t |-> "bool", b |-> b]
\* a dict with the single key "context"
PyCtxDict(c) == [t |-> "dict", context |-> c]
\* the dict Memory.query_one and Memory.query_all return
PyAnswerDict(a, c) == [t |-> "answerdict", answer |-> a, context |-> c]

\* a value json.dumps cannot serialize (a set, an object of a user class)
PyObject == [t |-> "object"]

(***************************************************************************)
(* Strings.                                                                *)
(***************************************************************************)
\* Python's "a in b" on strings
IsSubstring(a, b) ==
    \E i \in 1..(Len(b) - Len(a) + 1) : SubSeq(b, i, i + Len(a) - 1) = a

\* str.find(pat, from): the first index >= from at which pat occurs, 0 if none
Find(s, pat, from) ==
    LET hits == {i \in from..(Len(s) - Len(pat) + 1) :
                    SubSeq(s, i, i + Len(pat) - 1) = pat}
    IN  IF hits = {} THEN 0 ELSE CHOOSE i \in hits : \A j \in hits : i <= j

\* repr() of a Python value, as str() of a list or dict shows its elements
Repr(v) ==
    CASE v.t = "none" -> "None"
      [] v.t = "str" -> "'" \o v.s \o "'"
      [] v.t = "int" -> ToString(v.n)
      [] v.t = "bool" -> (IF v.b THEN "True" ELSE "False")
      [] v.t = "dict" -> "{'context': '" \o v.context \o "'}"
      [] v.t = "answerdict" ->
             "{'answer': '" \o v.answer \o "', 'context': '" \o v.context \o "'}"
      [] OTHER -> "<object>"

RECURSIVE JoinRepr(_)
JoinRepr(vs) ==
    IF vs = <<>> THEN ""
    ELSE IF Len(vs) = 1 THEN Repr(vs[1])
    ELSE Repr(vs[1]) \o ", " \o JoinRepr(Tail(vs))

\* str(list)
StrList(vs) == "[" \o JoinRepr(vs) \o "]"

RECURSIVE JoinItems(_)
JoinItems(kv) ==
    IF kv = <<>> THEN ""
    ELSE IF Len(kv) = 1 THEN "'" \o kv[1][1] \o "': " \o Repr(kv[1][2])
    ELSE "'" \o kv[1][1] \o "': " \o Repr(kv[1][2]) \o ", " \o JoinItems(Tail(kv))

\* str(dict)
StrDict(kv) == "{" \o JoinItems(kv) \o "}"

(***************************************************************************)
(* Python dicts: sequences of <<key, value>> pairs, keys unique.           *)
(***************************************************************************)
Keys(d) == {d[i][1] : i \in 1..Len(d)}

Has(d, k) == \E i \in 1..Len(d) : d[i][1] = k

Get(d, k) == d[CHOOSE i \in 1..Len(d) : d[i][1] = k][2]

\* Put that moves an existing key to the end
PutAtEnd(d, k, v) ==
    Append(SelectSeq(d, LAMBDA e : e[1] # k), <<k, v>>)

\* d[k] = v: an existing key keeps its position, a new key goes last
Put(d, k, v) ==
    IF Has(d, k)
    THEN [i \in 1..Len(d) |-> IF d[i][1] = k THEN <<k, v>> ELSE d[i]]
    ELSE Append(d, <<k, v>>)

(***************************************************************************)
(* The retrieval collaborator (llama_index), as far as the memory uses it. *)
(***************************************************************************)
\* the summary summarize_documents returns for a document text
Summarize(text) == "summary of " \o text

\* the index summarize_documents builds over one document
IndexOf(text) == [docs |-> <<text>>]

\* the entry of document_store for a document text
StoreEntry(text) == [text |-> text, summary |-> Summarize(text), index |-> IndexOf(text)]

\* Memory.__init__
MemoryInit(docs) ==
    IF docs # <<>>
    THEN [documents |-> docs,
          document_store |->
              [i \in 1..Len(docs) |->
                  <<docs[i][1], StoreEntry(docs[i][2])>>],
          router_index |-> [none |-> FALSE,
                            docs |-> [i \in 1..Len(docs) |-> docs[i][2]]]]
    ELSE [documents |-> <<>>,
          document_store |-> <<>>,
          router_index |-> [none |-> TRUE, docs |-> <<>>]]

\* Memory.add_document; router_index.insert on None raises AttributeError
\* after documents and document_store were written
AddDocument(mem, name, document) ==
    LET m1 == [mem EXCEPT
                  !.documents = Put(@, name, document),
                  !.document_store =
                      Put(@, name, StoreEntry(document))]
    IN  IF mem.router_index.none
        THEN [mem |-> m1, exc |-> "AttributeError"]
        ELSE [mem |-> [m1 EXCEPT !.router_index.docs = Append(@, document)],
              exc |-> ""]

\* Memory.to_prompt_string: one entry per name of documents, in the order
\* of the dictionary; a name without an entry in document_store is a KeyError
RECURSIVE PromptEntries(_, _)
PromptEntries(mem, i) ==
    IF i > Len(mem.documents) THEN ""
    ELSE "- " \o mem.documents[i][1] \o ":\n"
            \o "    Summary: " \o Get(mem.document_store, mem.documents[i][1]).summary
            \o "\n" \o PromptEntries(mem, i + 1)

ToPromptString(mem) ==
    IF \E i \in 1..Len(mem.documents) : ~Has(mem.document_store, mem.documents[i][1])
    THEN [exc |-> "KeyError", result |-> ""]
    ELSE [exc |-> "", result |-> PromptEntries(mem, 1)]

\* the segments retrieve_segment_of_text may return for a text: the text of
\* the first source node, a piece of the text
Segments(text) == {SubSeq(text, 1, k) : k \in 1..Len(text)}

\* GetDocument that retrieves a text of exactly max_length too
GetDocumentAtLeast(mem, name, max_length, segment) ==
    IF ~Has(mem.documents, name)
    THEN [exc |-> "KeyError", retrieved |-> FALSE, result |-> ""]
    ELSE IF Len(Get(mem.documents, name)) >= max_length
    THEN [exc |-> "", retrieved |-> TRUE, result |-> segment]
    ELSE [exc |-> "", retrieved |-> FALSE, result |-> Get(mem.documents, name)]

\* Memory.get_document; segment is what the retrieval returns when asked
GetDocument(mem, name, max_length, segment) ==
    IF ~Has(mem.documents, name)
    THEN [exc |-> "KeyError", retrieved |-> FALSE, result |-> ""]
    ELSE IF Len(Get(mem.documents, name)) > max_length
    THEN [exc |-> "", retrieved |-> TRUE, result |-> segment]
    ELSE [exc |-> "", retrieved |-> FALSE, result |-> Get(mem.documents, name)]

(***************************************************************************)
(* json.dumps and eval.                                                    *)
(***************************************************************************)
\* json.dumps raises TypeError on a value that is not JSON-serializable
Serializable(v) == v.t # "object"

\* s from position from on, the characters at the positions in specials
\* escaped
RECURSIVE EscapeFrom(_, _, _)
EscapeFrom(s, specials, from) ==
    IF \A i \in specials : i < from THEN SubSeq(s, from, Len(s))
    ELSE With(CHOOSE i \in specials :
                 i >= from /\ \A j \in specials : j >= from => i <= j,
              LAMBDA i :
                 SubSeq(s, from, i - 1)
                    \o (CASE SubSeq(s, i, i) = "\"" -> "\\\""
                          [] SubSeq(s, i, i) = "\\" -> "\\\\"
                          [] SubSeq(s, i, i) = "\n" -> "\\n")
                    \o EscapeFrom(s, specials, i + 1))

\* json.dumps of a string escapes the quote, the backslash and the newline
EscapeJson(s) ==
    With({i \in 1..Len(s) : SubSeq(s, i, i) \in {"\"", "\\", "\n"}},
         LAMBDA specials : EscapeFrom(s, specials, 1))

\* json.dumps(v) for a serializable v
Dumps(v) ==
    CASE v.t = "none" -> "null"
      [] v.t = "str" -> "\"" \o EscapeJson(v.s) \o "\""
      [] v.t = "int" -> ToString(v.n)
      [] v.t = "bool" -> (IF v.b THEN "true" ELSE "false")
      [] v.t = "dict" -> "{\"context\": \"" \o EscapeJson(v.context) \o "\"}"
      [] v.t = "answerdict" ->
             "{\"answer\": \"" \o EscapeJson(v.answer) \o "\", \"context\": \""
                 \o EscapeJson(v.context) \o "\"}"

IdentChars == {"a", "b", "c", "d", "e", "f", "g", "h", "i", "j", "k", "l", "m",
               "n", "o", "p", "q", "r", "s", "t", "u", "v", "w", "x", "y", "z",
               "_"}

DigitChars == <<"0", "1", "2", "3", "4", "5", "6", "7", "8", "9">>

RECURSIVE RStrip(_)
RStrip(s) ==
    IF Len(s) > 0 /\ SubSeq(s, Len(s), Len(s)) = " "
    THEN RStrip(SubSeq(s, 1, Len(s) - 1))
    ELSE s

IsIdentifier(s) ==
    Len(s) > 0 /\ \A i \in 1..Len(s) : SubSeq(s, i, i) \in IdentChars

IsDigits(s) ==
    Len(s) > 0 /\ \A i \in 1..Len(s) : \E d \in 1..10 : SubSeq(s, i, i) = DigitChars[d]

RECURSIVE ParseInt(_)
ParseInt(s) ==
    IF s = "" THEN 0
    ELSE LET c == SubSeq(s, Len(s), Len(s))
             d == CHOOSE k \in 1..10 : DigitChars[k] = c
         IN  10 * ParseInt(SubSeq(s, 1, Len(s) - 1)) + (d - 1)

\* a string literal in quotes q with no quote or backslash inside
IsQuotedBy(s, q) ==
    /\ Len(s) >= 2
    /\ SubSeq(s, 1, 1) = q
    /\ SubSeq(s, Len(s), Len(s)) = q
    /\ \A i \in 2..(Len(s) - 1) : SubSeq(s, i, i) \notin {q, "\\"}

IsQuoted(s) == IsQuotedBy(s, "\"") \/ IsQuotedBy(s, "'")

Unquote(s) == SubSeq(s, 2, Len(s) - 1)

CtxDictPrefix == "{\"context\": "

IsCtxDictText(s) ==
    /\ Len(s) > Len(CtxDictPrefix) + 1
    /\ SubSeq(s, 1, Len(CtxDictPrefix)) = CtxDictPrefix
    /\ SubSeq(s, Len(s), Len(s)) = "}"
    /\ IsQuoted(SubSeq(s, Len(CtxDictPrefix) + 1, Len(s) - 1))

AnswerDictPrefix == "{\"answer\": "

AnswerDictMiddle == ", \"context\": "

\* the text of a mapping with the keys "answer" and "context", in that order
IsAnswerDictText(s) ==
    LET m == Find(s, AnswerDictMiddle, Len(AnswerDictPrefix) + 1)
    IN  /\ Len(s) > Len(AnswerDictPrefix) + Len(AnswerDictMiddle) + 1
        /\ SubSeq(s, 1, Len(AnswerDictPrefix)) = AnswerDictPrefix
        /\ SubSeq(s, Len(s), Len(s)) = "}"
        /\ m # 0
        /\ IsQuoted(SubSeq(s, Len(AnswerDictPrefix) + 1, m - 1))
        /\ IsQuoted(SubSeq(s, m + Len(AnswerDictMiddle), Len(s) - 1))

EvalAnswerDict(s) ==
    LET m == Find(s, AnswerDictMiddle, Len(AnswerDictPrefix) + 1)
    IN  PyAnswerDict(Unquote(SubSeq(s, Len(AnswerDictPrefix) + 1, m - 1)),
                     Unquote(SubSeq(s, m + Len(AnswerDictMiddle), Len(s) - 1)))

\* Python's eval(text): the value of a literal (a quoted string, a number,
\* a mapping); a bare name that is no Python name (hello, true, null)
\* raises NameError, other text SyntaxError
Eval(text) ==
    LET body == RStrip(text)
    IN  IF IsQuoted(body) THEN [exc |-> "", val |-> PyStr(Unquote(body))]
        ELSE IF IsDigits(body) THEN [exc |-> "", val |-> PyInt(ParseInt(body))]
        ELSE IF IsCtxDictText(body)
        THEN [exc |-> "",
              val |-> PyCtxDict(Unquote(SubSeq(body, Len(CtxDictPrefix) + 1,
                                                Len(body) - 1)))]
        ELSE IF IsAnswerDictText(body)
        THEN [exc |-> "", val |-> EvalAnswerDict(body)]
        ELSE IF IsIdentifier(body) THEN [exc |-> "NameError", val |-> PyNone]
        ELSE [exc |-> "SyntaxError", val |-> PyNone]

(***************************************************************************)
(* AgenticGPT: resolving arguments and naming results.                     *)
(***************************************************************************)
\* every {{name}} of s becomes the text of the document name, or "" when
\* there is none
RECURSIVE RenderBody(_, _)
RenderBody(s, docs) ==
    LET i == Find(s, "{{", 1)
        j == IF i = 0 THEN 0 ELSE Find(s, "}}", i + 2)
    IN  IF i = 0 \/ j = 0 THEN s
        ELSE LET name == SubSeq(s, i + 2, j - 1)
             IN  SubSeq(s, 1, i - 1)
                     \o (IF Has(docs, name) THEN Get(docs, name) ELSE "")
                     \o RenderBody(SubSeq(s, j + 2, Len(s)), docs)

\* jinja2.Environment has keep_trailing_newline=False: one newline at the
\* end of the template source is dropped
DropTrailingNewline(s) ==
    IF Len(s) > 0 /\ SubSeq(s, Len(s), Len(s)) = "\n"
    THEN SubSeq(s, 1, Len(s) - 1) ELSE s

\* jinja2's render of the template s against the memory documents
Render(s, docs) == RenderBody(DropTrailingNewline(s), docs)

\* jinja2 raises TemplateSyntaxError on a {{ that is never closed
TemplateSyntaxOk(s) ==
    LET i == Find(s, "{{", 1) IN i = 0 \/ Find(s, "}}", i + 2) # 0

\* AgenticGPT.__template_from_memory
TemplateFromMemory(mem, variable_string) ==
    IF variable_string.t # "str"
    THEN [exc |-> "", msg |-> "", val |-> variable_string]
    ELSE IF ~TemplateSyntaxOk(variable_string.s)
    THEN [exc |-> "TemplateSyntaxError", msg |-> "", val |-> PyNone]
    ELSE With(Render(variable_string.s, mem.documents),
              LAMBDA result :
                 IF result # variable_string.s
                 THEN IF result = ""
                      THEN [exc |-> "AgentError",
                            msg |-> variable_string.s
                                    \o " is not a valid file in memory. Please try again.",
                            val |-> PyNone]
                      ELSE With(Eval(result),
                                LAMBDA e : [exc |-> e.exc, msg |-> result, val |-> e.val])
                 ELSE [exc |-> "", msg |-> "", val |-> variable_string])

\* [self.__template_from_memory(arg) for arg in action_args]: the first
\* argument that raises ends the comprehension
RECURSIVE TemplateAll(_, _)
TemplateAll(mem, args) ==
    IF args = <<>> THEN [exc |-> "", msg |-> "", vals |-> <<>>]
    ELSE With(TemplateFromMemory(mem, args[1]),
              LAMBDA h :
                 IF h.exc # "" THEN [exc |-> h.exc, msg |-> h.msg, vals |-> <<>>]
                 ELSE With(TemplateAll(mem, Tail(args)),
                           LAMBDA r : [exc |-> r.exc, msg |-> r.msg,
                                       vals |-> <<h.val>> \o r.vals]))

\* NameActionReturnedVariable counting only the names that start with
\* action_name
NameActionPrefixOnly(mem, action_name) ==
    LET suffix == 1 + Cardinality({i \in 1..Len(mem.documents) :
                                      /\ Len(mem.documents[i][1]) >= Len(action_name)
                                      /\ SubSeq(mem.documents[i][1], 1, Len(action_name))
                                            = action_name})
    IN  action_name \o "_result_" \o ToString(suffix)

\* AgenticGPT.__name_action_returned_variable
NameActionReturnedVariable(mem, action_name) ==
    LET suffix == 1 + Cardinality({i \in 1..Len(mem.documents) :
                                      IsSubstring(action_name, mem.documents[i][1])})
    IN  action_name \o "_result_" \o ToString(suffix)

(***************************************************************************)
(* The callables behind the actions.  Each takes the resolved positional   *)
(* arguments, the memory it may write and the environment's answer o       *)
(* ("ok" or "fail": whether the file system or service call succeeds), and *)
(* returns [exc, msg, result, mem, ran]; exc # "" is an exception raised   *)
(* by the call.  Python raises TypeError when the number of arguments does *)
(* not fit the signature.                                                  *)
(***************************************************************************)
Returned(v, mem) ==
    [exc |-> "", msg |-> "", result |-> v, mem |-> mem, ran |-> TRUE]

Raised(e, msg, mem) ==
    [exc |-> e, msg |-> msg, result |-> PyNone, mem |-> mem, ran |-> TRUE]

\* the call itself fails: the body of the callable never runs
WrongArity(name, mem) ==
    [Raised("TypeError", name \o "() got the wrong number of arguments", mem)
        EXCEPT !.ran = FALSE]

\* examples/tests/hello_world.py: say_hi()
SayHi(args, mem, o) ==
    IF Len(args) # 0 THEN WrongArity("say_hi", mem) ELSE Returned(PyNone, mem)

\* agentic_gpt/actions/filesystem.py: mkdir(path)
Mkdir(args, mem, o) ==
    IF Len(args) # 1 THEN WrongArity("mkdir", mem)
    ELSE IF o = "fail" \/ args[1].t # "str"
    THEN Raised("OSError", "cannot create directory", mem)
    ELSE Returned(PyStr("Created directory: " \o args[1].s), mem)

\* agentic_gpt/agent/toolkit/standard_actions/filesystem.py: get_file_contents
GetFileContents(args, mem, o) ==
    IF Len(args) # 1 THEN WrongArity("get_file_contents", mem)
    ELSE IF o = "fail" \/ args[1].t # "str"
    THEN Raised("OSError", "cannot open file", mem)
    ELSE Returned(PyCtxDict("contents of " \o args[1].s), mem)

\* a user-supplied callable whose result json.dumps rejects (a response
\* object, a set)
GetRaw(args, mem, o) ==
    IF Len(args) # 1 THEN WrongArity("get_raw", mem) ELSE Returned(PyObject, mem)

\* declare_done()
DeclareDone(args, mem, o) ==
    IF Len(args) # 0 THEN WrongArity("declare_done", mem) ELSE Returned(PyNone, mem)

\* ask_llm(prompt): the completion for prompt
AskLlm(args, mem, o) ==
    IF Len(args) # 1 THEN WrongArity("ask_llm", mem)
    ELSE Returned(PyStr("answer"), mem)

\* Memory.add_document as the callable of add_document_to_memory
AddDocumentFn(args, mem, o) ==
    IF Len(args) # 2 THEN WrongArity("add_document", mem)
    ELSE IF args[1].t # "str" \/ args[2].t # "str"
    THEN Raised("TypeError", "document is not a string", mem)
    ELSE With(AddDocument(mem, args[1].s, args[2].s),
              LAMBDA r :
                 IF r.exc # ""
                 THEN Raised(r.exc, "'NoneType' object has no attribute 'insert'", r.mem)
                 ELSE Returned(PyNone, r.mem))

\* Memory.query_one: router_index.as_query_engine() on None raises
QueryOne(args, mem, o) ==
    IF Len(args) # 1 THEN WrongArity("query_one", mem)
    ELSE IF mem.router_index.none
    THEN Raised("AttributeError",
                "'NoneType' object has no attribute 'as_query_engine'", mem)
    ELSE Returned(PyAnswerDict("answer", "The answer returned from memory is: answer"),
                  mem)

\* Memory.query_all
QueryAll(args, mem, o) ==
    IF Len(args) # 1 THEN WrongArity("query_all", mem)
    ELSE Returned(PyAnswerDict("answer", "The answer returned from memory is: answer"),
                  mem)

DONE_FUNCTION == "declare_done"

ASK_LLM_FUNCTION == "ask_ai"

\* the actions_available argument of the constructor
GivenActions == <<"say_hi", "mkdir", "get_file_contents", "get_raw">>

CLARIFY_FUNCTION == "ask_user_to_clarify"

\* lines 129-145
MemoryActions ==
    <<"add_document_to_memory", "query_all_documents_in_memory",
      "query_one_document_in_memory">>

\* lines 147-168: ask_user_to_clarify goes first when ask_user_fn is given
DefaultActions(ask_user_fn) ==
    (IF ask_user_fn THEN <<CLARIFY_FUNCTION>> ELSE <<>>)
        \o <<ASK_LLM_FUNCTION, DONE_FUNCTION>>

\* the names of a sequence of actions
Names(actions) == {actions[i] : i \in 1..Len(actions)}

\* InitActionsAvailable checking the given names before the memory actions
\* join the default ones
InitActionsNoMemoryCheck(given_actions, ask_user_fn) ==
    [exc |-> IF Names(given_actions) \cap Names(DefaultActions(ask_user_fn)) # {}
             THEN "AssertionError" ELSE "",
     actions |-> given_actions \o DefaultActions(ask_user_fn) \o MemoryActions]

\* AgenticGPT.__init_actions_available: the names of the registry, in
\* order, and the AssertionError of lines 175-178
InitActionsAvailable(given_actions, ask_user_fn) ==
    LET default_actions == DefaultActions(ask_user_fn) \o MemoryActions
    IN  [exc |-> IF Names(given_actions) \cap Names(default_actions) # {}
                 THEN "AssertionError" ELSE "",
         actions |-> given_actions \o default_actions]

\* self.actions_available of an agent without ask_user_fn
ActionsAvailable == InitActionsAvailable(GivenActions, FALSE).actions

\* action.function of the registered action called name
Function(name, args, mem, o) ==
    CASE name = "say_hi" -> SayHi(args, mem, o)
      [] name = "mkdir" -> Mkdir(args, mem, o)
      [] name = "get_file_contents" -> GetFileContents(args, mem, o)
      [] name = "get_raw" -> GetRaw(args, mem, o)
      [] name = ASK_LLM_FUNCTION -> AskLlm(args, mem, o)
      [] name = DONE_FUNCTION -> DeclareDone(args, mem, o)
      [] name = "add_document_to_memory" -> AddDocumentFn(args, mem, o)
      [] name = "query_all_documents_in_memory" -> QueryAll(args, mem, o)
      [] name = "query_one_document_in_memory" -> QueryOne(args, mem, o)

\* Execute without its try/except: the exception of the callable leaves it
ExecuteNoCatch(name, args, mem, o) == Function(name, args, mem, o)

\* Action.execute(*args): any Exception of the callable becomes AgentError
Execute(name, args, mem, o) ==
    With(Function(name, args, mem, o),
         LAMBDA r :
            IF r.exc # ""
            THEN [r EXCEPT !.exc = "AgentError",
                           !.msg = "Error executing action. Error message: " \o r.msg]
            ELSE r)

(***************************************************************************)
(* AgenticGPT.process_response.  st is the agent state it reads and        *)
(* writes, [context, memory, calls, stored]; the result carries the state  *)
(* at the return or at the point the exception exc left the method.        *)
(***************************************************************************)
IsDict(v) == "t" \notin DOMAIN v

\* the exception of response_obj["command"]["action"], "" when it is there
CommandLookup(response_obj) ==
    IF ~IsDict(response_obj) THEN "TypeError"
    ELSE IF "command" \notin DOMAIN response_obj THEN "KeyError"
    ELSE IF ~IsDict(response_obj.command) THEN "TypeError"
    ELSE IF "action" \notin DOMAIN response_obj.command THEN "KeyError"
    ELSE ""

\* the exception of response_obj["thoughts"]["text"] and ["reasoning"]
ThoughtsLookup(response_obj) ==
    IF "thoughts" \notin DOMAIN response_obj THEN "KeyError"
    ELSE IF ~IsDict(response_obj.thoughts) THEN "TypeError"
    ELSE IF {"text", "reasoning"} \subseteq DOMAIN response_obj.thoughts THEN ""
    ELSE "KeyError"

CommandArgs(command) == IF "args" \in DOMAIN command THEN command.args ELSE <<>>

CommandKwargs(command) == IF "kwargs" \in DOMAIN command THEN command.kwargs ELSE <<>>

\* the first registered action called chosen_action, 0 when there is none
FindAction(chosen_action) ==
    LET hits == {i \in 1..Len(ActionsAvailable) : ActionsAvailable[i] = chosen_action}
    IN  IF hits = {} THEN 0 ELSE CHOOSE i \in hits : \A j \in hits : i <= j

Outcome(exc, msg, st, action_result) ==
    [exc |-> exc, msg |-> msg, context |-> st.context, memory |-> st.memory,
     calls |-> st.calls, stored |-> st.stored, action_result |-> action_result]

\* lines 330-332: a result that is not None is stored under variable
StoreDocument(st, variable, action_result) ==
    With(AddDocument(st.memory, variable, Dumps(action_result)),
         LAMBDA a :
            IF a.exc # ""
            THEN Outcome(a.exc, "'NoneType' object has no attribute 'insert'",
                         [st EXCEPT !.memory = a.mem], action_result)
            ELSE Outcome("", "",
                         [st EXCEPT !.memory = a.mem,
                                    !.context = @ \o "\nResult is stored in Memory as: "
                                                  \o variable],
                         action_result))

\* lines 321-337: the action has returned action_result
StoreResult(st, chosen_action, action_name, action_result) ==
    With([st EXCEPT !.context = @ \o "\n\nCommand " \o chosen_action \o " executed."],
         LAMBDA st1 :
            IF ~Serializable(action_result)
            THEN Outcome("TypeError",
                         "Result from action " \o chosen_action
                             \o " is not JSON serializable.",
                         st1, action_result)
            ELSE IF action_result # PyNone
            THEN With(NameActionReturnedVariable(st1.memory, action_name),
                      LAMBDA variable :
                         StoreDocument(
                             [st1 EXCEPT !.stored =
                                 Append(@, [action |-> action_name, name |-> variable])],
                             variable, action_result))
            ELSE Outcome("", "", st1, action_result))

\* line 320, the call having no keyword arguments
DispatchCall(st, chosen_action, action_name, action_args, o) ==
    With(Execute(action_name, action_args, st.memory, o),
         LAMBDA r :
            With([st EXCEPT
                     !.memory = r.mem,
                     !.calls = IF r.ran
                               THEN Append(@, [name |-> action_name,
                                               args |-> action_args])
                               ELSE @],
                 LAMBDA st1 :
                    IF r.exc # "" THEN Outcome(r.exc, r.msg, st1, PyNone)
                    ELSE StoreResult(st1, chosen_action, action_name, r.result)))

\* Dispatch that raises AgentError when no registered action has the name
DispatchUnknownRaises(st, chosen_action, action_args, action_kwargs, o) ==
    With(FindAction(chosen_action),
         LAMBDA i :
            IF i = 0
            THEN Outcome("AgentError", "Unknown action " \o chosen_action, st, PyNone)
            ELSE IF action_kwargs # <<>>
            THEN Outcome("TypeError", "execute() got an unexpected keyword argument",
                         st, PyNone)
            ELSE DispatchCall(st, chosen_action, ActionsAvailable[i], action_args, o))

\* lines 317-320: action.execute(*action_args, **action_kwargs); execute
\* takes no keyword arguments, so any kwargs make the call a TypeError
Dispatch(st, chosen_action, action_args, action_kwargs, o) ==
    With(FindAction(chosen_action),
         LAMBDA i :
            IF i = 0 THEN Outcome("", "", st, PyNone)
            ELSE IF action_kwargs # <<>>
            THEN Outcome("TypeError", "execute() got an unexpected keyword argument",
                         st, PyNone)
            ELSE DispatchCall(st, chosen_action, ActionsAvailable[i], action_args, o))

\* lines 294-305: the resolved args, then the resolved kwargs
ResolveCommand(mem, command) ==
    With(TemplateAll(mem, CommandArgs(command)),
         LAMBDA a :
            IF a.exc # "" THEN [exc |-> a.exc, msg |-> a.msg, args |-> <<>>,
                                kwargs |-> <<>>]
            ELSE With(CommandKwargs(command),
                      LAMBDA kw :
                         With(TemplateAll(mem, [i \in 1..Len(kw) |-> kw[i][2]]),
                              LAMBDA k :
                                 IF k.exc # ""
                                 THEN [exc |-> k.exc, msg |-> k.msg, args |-> <<>>,
                                       kwargs |-> <<>>]
                                 ELSE [exc |-> "", msg |-> "", args |-> a.vals,
                                       kwargs |-> [i \in 1..Len(kw) |->
                                                      <<kw[i][1], k.vals[i]>>]])))

ProcessResponse(st, response_obj, o) ==
    IF CommandLookup(response_obj) # ""
    THEN Outcome(CommandLookup(response_obj), "", st, PyNone)
    ELSE With(ResolveCommand(st.memory, response_obj.command),
              LAMBDA r :
                 IF r.exc # "" THEN Outcome(r.exc, r.msg, st, PyNone)
                 ELSE IF ThoughtsLookup(response_obj) # ""
                 THEN Outcome(ThoughtsLookup(response_obj), "", st, PyNone)
                 ELSE Dispatch(st, response_obj.command.action, r.args, r.kwargs, o))

(***************************************************************************)
(* The inputs: what the language model may answer, what the memory holds   *)
(* at construction.                                                        *)
(***************************************************************************)
Thoughts == [text |-> "thinking", reasoning |-> "because"]

Str(s) == PyStr(s)

\* commands with both "args" and "kwargs"
Commands ==
    {[action |-> "say_hi", args |-> <<>>, kwargs |-> <<>>],
     [action |-> "mkdir", args |-> <<Str("x")>>, kwargs |-> <<>>],
     [action |-> "mkdir", args |-> <<Str("{{d}}")>>, kwargs |-> <<>>],
     [action |-> "mkdir", args |-> <<Str("{{mkdir_result_1}}")>>, kwargs |-> <<>>],
     [action |-> "mkdir", args |-> <<Str("see {{missing}}")>>, kwargs |-> <<>>],
     [action |-> "mkdir", args |-> <<>>, kwargs |-> <<<<"path", Str("x")>>>>],
     [action |-> "mkdir", args |-> <<>>, kwargs |-> <<<<"path", Str("{{missing}}")>>>>],
     [action |-> "get_file_contents", args |-> <<Str("x")>>, kwargs |-> <<>>],
     [action |-> "get_raw", args |-> <<Str("x")>>, kwargs |-> <<>>],
     [action |-> ASK_LLM_FUNCTION, args |-> <<Str("x")>>, kwargs |-> <<>>],
     [action |-> DONE_FUNCTION, args |-> <<>>, kwargs |-> <<>>],
     [action |-> DONE_FUNCTION, args |-> <<Str("x")>>, kwargs |-> <<>>],
     [action |-> "add_document_to_memory",
      args |-> <<Str("mkdir_result_2"), Str("x")>>, kwargs |-> <<>>],
     [action |-> "query_one_document_in_memory", args |-> <<Str("x")>>,
      kwargs |-> <<>>],
     [action |-> "fly", args |-> <<>>, kwargs |-> <<>>]}

\* JSON values that match the response schema
WellFormedObjects ==
    {[thoughts |-> Thoughts, command |-> c] : c \in Commands}
        \cup {[thoughts |-> Thoughts, command |-> [action |-> "say_hi"]]}

\* JSON values that do not: a number, and objects without "command",
\* without "thoughts", without "command.action"
MalformedObjects ==
    {PyInt(7),
     [thoughts |-> Thoughts],
     [command |-> [action |-> "say_hi", args |-> <<>>, kwargs |-> <<>>]],
     [thoughts |-> Thoughts, command |-> [args |-> <<>>, kwargs |-> <<>>]]}

\* what get_completion returns: text that is no JSON, text that is the JSON
\* of obj, or (llm_providers.get_completion on InvalidRequestError) a dict
Completions ==
    {[kind |-> "text", text |-> "Sure, I will say hi."]}
        \cup {[kind |-> "json", obj |-> x] : x \in WellFormedObjects \cup MalformedObjects}
        \cup {[kind |-> "errdict"]}

\* the answers of the environment to the call a completion asks for: the
\* file system may fail the callables that use it
Envs(c) ==
    IF /\ c.kind = "json"
       /\ CommandLookup(c.obj) = ""
       /\ c.obj.command.action \in {"mkdir", "get_file_contents"}
    THEN {"ok", "fail"} ELSE {"ok"}

\* str() of the JSONDecodeError json.loads raises on text
DecodeErrorText(text) == "Expecting value: line 1 column 1 (char 0)"

\* the memory_dict argument of the constructor
MemoryDicts ==
    {<<>>,
     <<<<"d", "hello">>>>,
     <<<<"mkdir_result_2", "\"x\"">>>>}

(***************************************************************************)
(* AgenticGPT.run, one action per iteration of its loop.                   *)
(***************************************************************************)
\* the backquote character, which a TLA+ string cannot hold: written '
Backquote == "'"

\* lines 394-402: the context after an AgentError
ErrorContext(response_obj, msg) ==
    "\nJust tried running action " \o Backquote \o response_obj.command.action
        \o Backquote
        \o (IF "args" \in DOMAIN response_obj.command
            THEN " given args " \o StrList(response_obj.command.args) ELSE "")
        \o (IF "kwargs" \in DOMAIN response_obj.command
            THEN " and given kwargs " \o StrDict(response_obj.command.kwargs) ELSE "")
        \o "\nIt threw an error: " \o msg

\* DecodeErrorContext that leaves the decode error out
DecodeErrorContextNoError(ctx, completion) ==
    ctx \o "\nYou gave the answer: " \o completion.text \o "\nPlease try again."

\* lines 375-379: the context after a JSONDecodeError
DecodeErrorContext(ctx, completion) ==
    ctx \o "\nYou gave the answer: " \o completion.text
        \o "\nCould not decode answer as JSON: " \o DecodeErrorText(completion.text)
        \o "\nPlease try again."

\* LoopTest with <= for <: one iteration too many
LoopTestOffByOne(n) == IF n <= MaxSteps THEN "running" ELSE "returned"

\* the loop test of line 346 after an iteration that did not return
LoopTest(n) == IF n < MaxSteps THEN "running" ELSE "returned"

\* AfterRecord without the return of lines 412-414: the loop test alone
AfterRecordNoReturn(action, n) == LoopTest(n)

\* lines 410-414, then line 346: run() returns when the recorded action is
\* declare_done, and tests the loop condition otherwise
AfterRecord(action, n) == IF action = DONE_FUNCTION THEN "returned" ELSE LoopTest(n)

\* Record that appends the command with its arguments resolved
RecordResolved(taken, response_obj) ==
    With(ResolveCommand(memory, response_obj.command),
         LAMBDA r :
            Append(taken,
                   [response_obj EXCEPT
                       !.command = [action |-> response_obj.command.action,
                                    args |-> r.args, kwargs |-> r.kwargs]]))

\* Record that appends the response twice
RecordTwice(taken, response_obj) == Append(Append(taken, response_obj), response_obj)

\* lines 406-408: the response is appended to actions_taken
Record(taken, response_obj) == Append(taken, response_obj)

\* what one iteration did: the completion it consumed, the environment's
\* answer, the exception that ended it ("" when none) and how run() went on
StepRecord(outcome, c, o, exc) ==
    [outcome |-> outcome, completion |-> c, env |-> o, exc |-> exc]

Last == IF trace = <<>> THEN [outcome |-> "none"] ELSE trace[Len(trace)]

\* the objective argument of the constructor
Objective == "Say hello to the user, then exit!"

NoFile == [exists |-> FALSE]

NoProbe == [fn |-> "none"]

\* no dictionary and no agent besides the one under check
NoDicts == <<>>

NoAgents == <<>>

Init ==
    /\ pc = "ready"
    /\ steps = 0
    /\ requested = 0
    /\ actions_taken = <<>>
    /\ context = ""
    /\ \E d \in MemoryDicts : memory = MemoryInit(d)
    /\ calls = <<>>
    /\ trace = <<>>
    /\ stored = <<>>
    /\ objective = Objective
    /\ saved = NoFile
    /\ ops = <<>>
    /\ probe = NoProbe
    /\ dicts = NoDicts
    /\ agents = NoAgents

\* run() is called: lines 344-346
RunStart ==
    /\ pc = "ready"
    /\ pc' = LoopTest(0)
    /\ steps' = 0
    /\ requested' = 0
    /\ trace' = <<>>
    /\ UNCHANGED <<actions_taken, context, memory, calls, stored>>
    /\ UNCHANGED outside

\* StepDecodeError that does not count the iteration
StepDecodeErrorFree(c) ==
    /\ pc = "running"
    /\ c.kind = "text"
    /\ requested' = requested + 1
    /\ steps' = steps
    /\ context' = DecodeErrorContext(context, c)
    /\ pc' = LoopTest(steps')
    /\ trace' = Append(trace, StepRecord("decode_error", c, "ok", "JSONDecodeError"))
    /\ UNCHANGED <<actions_taken, memory, calls, stored>>
    /\ UNCHANGED outside

\* lines 356-357 and 365-380: the completion is not JSON
StepDecodeError(c) ==
    /\ pc = "running"
    /\ c.kind = "text"
    /\ requested' = requested + 1
    /\ steps' = steps + 1
    /\ context' = DecodeErrorContext(context, c)
    /\ pc' = LoopTest(steps')
    /\ trace' = Append(trace, StepRecord("decode_error", c, "ok", "JSONDecodeError"))
    /\ UNCHANGED <<actions_taken, memory, calls, stored>>
    /\ UNCHANGED outside

\* lines 356-357 and 367: json.loads of a dict raises TypeError, which no
\* handler of run() catches
StepLoadsCrash(c) ==
    /\ pc = "running"
    /\ c.kind = "errdict"
    /\ requested' = requested + 1
    /\ steps' = steps + 1
    /\ pc' = "crashed"
    /\ trace' = Append(trace, StepRecord("crash", c, "ok", "TypeError"))
    /\ UNCHANGED <<actions_taken, context, memory, calls, stored>>
    /\ UNCHANGED outside

\* lines 356-357 and 389-414: the completion is JSON
StepProcess(c, o) ==
    /\ pc = "running"
    /\ c.kind = "json"
    /\ requested' = requested + 1
    /\ steps' = steps + 1
    /\ \E r \in {ProcessResponse([context |-> context, memory |-> memory,
                                   calls |-> calls, stored |-> stored], c.obj, o)} :
           /\ memory' = r.memory
           /\ calls' = r.calls
           /\ stored' = r.stored
           /\ IF r.exc = "AgentError"
              THEN /\ context' = ErrorContext(c.obj, r.msg)
                   /\ pc' = LoopTest(steps')
                   /\ trace' = Append(trace, StepRecord("agent_error", c, o, r.exc))
                   /\ UNCHANGED actions_taken
              ELSE IF r.exc # ""
              THEN /\ context' = r.context
                   /\ pc' = "crashed"
                   /\ trace' = Append(trace, StepRecord("crash", c, o, r.exc))
                   /\ UNCHANGED actions_taken
              ELSE /\ context' = r.context
                   /\ actions_taken' = Record(actions_taken, c.obj)
                   /\ pc' = AfterRecord(c.obj.command.action, steps')
                   /\ trace' = Append(trace, StepRecord("recorded", c, o, ""))
    /\ UNCHANGED outside

Next ==
    \/ RunStart
    \/ \E c \in Completions : StepDecodeError(c)
    \/ \E c \in Completions : StepLoadsCrash(c)
    \/ \E c \in Completions : \E o \in Envs(c) : StepProcess(c, o)

Spec == Init /\ [][Next]_vars

(***************************************************************************)
(* The functions of the agent applied on their own: the constructor's      *)
(* registry, the naming of results, the resolution of one argument.        *)
(***************************************************************************)
\* documents a memory may hold when a result is named
NamingDicts ==
    {<<>>,
     <<<<"d", "hello">>>>,
     <<<<"mkdir_result_1", "\"x\"">>>>,
     <<<<"notes_on_mkdir", "n">>>>,
     <<<<"notes_on_mkdir", "n">>, <<"mkdir_result_1", "\"x\"">>>>,
     <<<<"get_file_contents_result_1", "\"x\"">>, <<"d", "hello">>>>}

NamedActions == {"mkdir", "get", "get_file_contents", "say_hi"}

\* argument values of a command
ArgumentValues ==
    {PyNone, PyInt(7), PyBool(TRUE), PyCtxDict("c"),
     Str("x"), Str("hello world"), Str("\"x\""), Str("7"),
     Str("x\n"), Str("\n"), Str("see {{"),
     Str("{{d}}"), Str("{{q}}"), Str("{{missing}}"), Str("see {{d}}"),
     Str("see {{missing}}")}

\* documents a memory may hold when an argument is resolved
ResolvingDicts ==
    {<<>>,
     <<<<"d", "hello">>>>,
     <<<<"q", "\"x\"">>>>,
     <<<<"d", "hello">>, <<"q", "\"x\"">>>>}

\* names of the actions a caller may give the constructor
GivenNames ==
    {"say_hi", "mkdir", CLARIFY_FUNCTION, ASK_LLM_FUNCTION, DONE_FUNCTION,
     "add_document_to_memory", "query_one_document_in_memory"}

\* the actions_available argument: up to two actions
GivenLists ==
    {<<>>} \cup {<<a>> : a \in GivenNames}
           \cup {<<a, b>> : a \in GivenNames, b \in GivenNames}

\* a registered action: its name and the callable it wraps
Entry(name, function) == [name |-> name, function |-> function]

\* registries in which several actions carry one name: the constructor only
\* compares the given names with the default ones (lines 175-178)
DispatchRegistries ==
    {<<Entry("mkdir", "mkdir"), Entry("say_hi", "say_hi")>>,
     <<Entry("mkdir", "mkdir"), Entry("mkdir", "get_raw")>>,
     <<Entry("mkdir", "get_raw"), Entry("say_hi", "say_hi"), Entry("mkdir", "mkdir")>>,
     <<Entry("say_hi", "say_hi"), Entry("say_hi", "mkdir"), Entry("say_hi", "get_raw")>>}

\* lines 320-337 for the registered action at position k
DispatchEntry(st, chosen_action, entry, k, action_args, o) ==
    With(Execute(entry.function, action_args, st.memory, o),
         LAMBDA r :
            With([st EXCEPT
                     !.memory = r.mem,
                     !.calls = IF r.ran
                               THEN Append(@, [name |-> entry.name, index |-> k,
                                               args |-> action_args])
                               ELSE @],
                 LAMBDA st1 :
                    IF r.exc # "" THEN Outcome(r.exc, r.msg, st1, PyNone)
                    ELSE StoreResult(st1, chosen_action, entry.name, r.result)))

\* DispatchLoop without the break of line 337: every action of the name runs
RECURSIVE DispatchLoopNoBreak(_, _, _, _, _, _)
DispatchLoopNoBreak(actions, st, chosen_action, action_args, o, k) ==
    IF k > Len(actions) THEN Outcome("", "", st, PyNone)
    ELSE IF actions[k].name # chosen_action
    THEN DispatchLoopNoBreak(actions, st, chosen_action, action_args, o, k + 1)
    ELSE With(DispatchEntry(st, chosen_action, actions[k], k, action_args, o),
              LAMBDA r :
                 IF r.exc # "" THEN r
                 ELSE DispatchLoopNoBreak(actions,
                                          [context |-> r.context, memory |-> r.memory,
                                           calls |-> r.calls, stored |-> r.stored],
                                          chosen_action, action_args, o, k + 1))

\* lines 317-337: the loop over self.actions_available from position k; the
\* first action of the name is executed and the loop is left
RECURSIVE DispatchLoop(_, _, _, _, _, _)
DispatchLoop(actions, st, chosen_action, action_args, o, k) ==
    IF k > Len(actions) THEN Outcome("", "", st, PyNone)
    ELSE IF actions[k].name # chosen_action
    THEN DispatchLoop(actions, st, chosen_action, action_args, o, k + 1)
    ELSE DispatchEntry(st, chosen_action, actions[k], k, action_args, o)

\* results an action may return and process_response stores
StoredValues ==
    {Str("x"), Str("hello world"), PyInt(7), PyBool(TRUE), PyBool(FALSE),
     PyCtxDict("c"), PyAnswerDict("a", "c")}

\* lines 322-332, then lines 296-297 of a later command: the result of
\* action_name is stored under its variable, and the argument "{{variable}}"
\* is resolved on the memory that holds it
RoundTrip(mem, action_name, action_result) ==
    With(NameActionReturnedVariable(mem, action_name),
         LAMBDA variable :
            With(AddDocument(mem, variable, Dumps(action_result)),
                 LAMBDA a :
                    IF a.exc # ""
                    THEN [stored |-> FALSE, variable |-> variable, exc |-> a.exc,
                          val |-> PyNone]
                    ELSE With(TemplateFromMemory(a.mem,
                                                 Str("{{" \o variable \o "}}")),
                              LAMBDA t :
                                 [stored |-> TRUE, variable |-> variable,
                                  exc |-> t.exc, val |-> t.val])))

Probes ==
    {[fn |-> "name", docs |-> d, action_name |-> a, applied |-> FALSE] :
        d \in NamingDicts, a \in NamedActions}
    \cup {[fn |-> "template", docs |-> d, variable_string |-> v, applied |-> FALSE] :
        d \in ResolvingDicts, v \in ArgumentValues}
    \cup {[fn |-> "construct", docs |-> <<>>, given_actions |-> g, ask_user_fn |-> f,
           applied |-> FALSE] : g \in GivenLists, f \in BOOLEAN}
    \cup {[fn |-> "dispatch", docs |-> <<<<"d", "hello">>>>, actions |-> g,
           chosen_action |-> a, action_args |-> <<Str("x")>>, env |-> o,
           applied |-> FALSE] :
        g \in DispatchRegistries, a \in {"mkdir", "say_hi", "fly"},
        o \in {"ok", "fail"}}
    \cup {[fn |-> "roundtrip", docs |-> d, action_name |-> "get_raw",
           action_result |-> v, applied |-> FALSE] :
        d \in ResolvingDicts, v \in StoredValues}

FnInit ==
    /\ pc = "ready"
    /\ steps = 0
    /\ requested = 0
    /\ actions_taken = <<>>
    /\ context = ""
    /\ calls = <<>>
    /\ trace = <<>>
    /\ stored = <<>>
    /\ objective = Objective
    /\ saved = NoFile
    /\ ops = <<>>
    /\ \E p \in Probes : probe = p /\ memory = MemoryInit(p.docs)
    /\ dicts = NoDicts
    /\ agents = NoAgents

Applied(result) ==
    /\ ~probe.applied
    /\ probe' = [fn |-> probe.fn, applied |-> TRUE, input |-> probe, result |-> result]
    /\ UNCHANGED <<pc, steps, requested, actions_taken, context, memory, calls,
                   trace, stored, objective, saved, ops, dicts, agents>>

ApplyName ==
    /\ probe.fn = "name"
    /\ Applied(NameActionReturnedVariable(memory, probe.action_name))

ApplyTemplate ==
    /\ probe.fn = "template"
    /\ Applied(TemplateFromMemory(memory, probe.variable_string))

ApplyConstruct ==
    /\ probe.fn = "construct"
    /\ Applied(InitActionsAvailable(probe.given_actions, probe.ask_user_fn))

ApplyRoundTrip ==
    /\ probe.fn = "roundtrip"
    /\ Applied(RoundTrip(memory, probe.action_name, probe.action_result))

ApplyDispatch ==
    /\ probe.fn = "dispatch"
    /\ Applied(DispatchLoop(probe.actions,
                            [context |-> "", memory |-> memory, calls |-> <<>>,
                             stored |-> <<>>],
                            probe.chosen_action, probe.action_args, probe.env, 1))

FnNext ==
    ApplyName \/ ApplyTemplate \/ ApplyConstruct \/ ApplyRoundTrip \/ ApplyDispatch

FnSpec == FnInit /\ [][FnNext]_vars

(***************************************************************************)
(* The action log: save_actions_taken, from_saved_actions and replay,      *)
(* called on an agent that is not running.                                 *)
(***************************************************************************)
\* the number of calls of the three operations on one agent
MaxOps == 3

\* a record of actions_taken as run() appends it
LogRecord(action, args) ==
    [thoughts |-> Thoughts,
     command |-> [action |-> action, args |-> args, kwargs |-> <<>>]]

LogFile(saved_objective, actions) ==
    [exists |-> TRUE, objective |-> saved_objective, actions |-> actions]

\* the files that may be at the path when the agent is constructed: none,
\* or the log of an earlier agent
LogFiles ==
    {NoFile,
     LogFile("Say hi", <<LogRecord("say_hi", <<>>), LogRecord(DONE_FUNCTION, <<>>)>>),
     LogFile("Make a folder",
             <<LogRecord("mkdir", <<Str("x")>>), LogRecord("say_hi", <<>>)>>),
     LogFile("Make the folder the user wants",
             <<LogRecord(CLARIFY_FUNCTION, <<Str("Which folder?")>>),
               LogRecord("mkdir", <<Str("x")>>)>>),
     LogFile("Read a file",
             <<LogRecord("get_file_contents", <<Str("x")>>),
               LogRecord("fly", <<>>)>>)}

\* WithoutClarify that keeps every record
WithoutClarifyKeepsAll(taken) == taken

\* lines 252-255: the records that do not ask the user to clarify
RECURSIVE WithoutClarify(_)
WithoutClarify(taken) ==
    IF taken = <<>> THEN <<>>
    ELSE IF taken[1].command.action # CLARIFY_FUNCTION
    THEN <<taken[1]>> \o WithoutClarify(Tail(taken))
    ELSE WithoutClarify(Tail(taken))

\* the state process_response reads and writes
AgentState == [context |-> context, memory |-> memory, calls |-> calls, stored |-> stored]

StateOf(r) == [context |-> r.context, memory |-> r.memory, calls |-> r.calls,
               stored |-> r.stored]

\* lines 244-245 from the k-th record on: the first exception that leaves
\* process_response leaves replay; dispatched counts the records whose
\* process_response returned
RECURSIVE ReplayFrom(_, _, _, _)
ReplayFrom(st, records, envs, k) ==
    IF k > Len(records)
    THEN [st |-> st, exc |-> "", dispatched |-> k - 1]
    ELSE With(ProcessResponse(st, records[k], envs[k]),
              LAMBDA r :
                 IF r.exc # ""
                 THEN [st |-> StateOf(r), exc |-> r.exc, dispatched |-> k - 1]
                 ELSE ReplayFrom(StateOf(r), records, envs, k + 1))

\* the answers of the environment to the calls of a replay, one per record
EnvSeqs(records) ==
    {e \in [1..Len(records) -> {"ok", "fail"}] :
        \A i \in 1..Len(records) :
            e[i] = "fail" => records[i].command.action \in {"mkdir", "get_file_contents"}}

OpRecord(op, exc, dispatched) == [op |-> op, exc |-> exc, dispatched |-> dispatched]

LastOp == IF ops = <<>> THEN [op |-> "none"] ELSE ops[Len(ops)]

LogInit ==
    /\ pc = "ready"
    /\ steps = 0
    /\ requested = 0
    /\ actions_taken = <<>>
    /\ context = ""
    /\ \E d \in MemoryDicts : memory = MemoryInit(d)
    /\ calls = <<>>
    /\ trace = <<>>
    /\ stored = <<>>
    /\ objective = Objective
    /\ saved \in LogFiles
    /\ ops = <<>>
    /\ probe = NoProbe
    /\ dicts = NoDicts
    /\ agents = NoAgents

\* AgenticGPT.save_actions_taken
SaveActionsTaken ==
    /\ pc \in {"ready", "returned"}
    /\ Len(ops) < MaxOps
    /\ saved' = LogFile(objective, WithoutClarify(actions_taken))
    /\ ops' = Append(ops, OpRecord("save", "", 0))
    /\ UNCHANGED <<pc, steps, requested, actions_taken, context, memory, calls,
                   trace, stored, objective, probe, dicts, agents>>

\* FromSavedActions that appends the loaded records to the present ones
FromSavedActionsExtends ==
    /\ pc \in {"ready", "returned"}
    /\ Len(ops) < MaxOps
    /\ IF saved.exists
       THEN /\ objective' = saved.objective
            /\ actions_taken' = actions_taken \o saved.actions
            /\ ops' = Append(ops, OpRecord("load", "", 0))
       ELSE /\ ops' = Append(ops, OpRecord("load", "FileNotFoundError", 0))
            /\ UNCHANGED <<objective, actions_taken>>
    /\ UNCHANGED <<pc, steps, requested, context, memory, calls, trace, stored,
                   saved, probe, dicts, agents>>

\* FromSavedActions that keeps the objective of the constructor
FromSavedActionsKeepsObjective ==
    /\ pc \in {"ready", "returned"}
    /\ Len(ops) < MaxOps
    /\ IF saved.exists
       THEN /\ actions_taken' = saved.actions
            /\ ops' = Append(ops, OpRecord("load", "", 0))
       ELSE /\ ops' = Append(ops, OpRecord("load", "FileNotFoundError", 0))
            /\ UNCHANGED actions_taken
    /\ UNCHANGED <<pc, steps, requested, context, memory, calls, trace, stored,
                   saved, probe, objective, dicts, agents>>

\* AgenticGPT.from_saved_actions; open() raises when there is no file
FromSavedActions ==
    /\ pc \in {"ready", "returned"}
    /\ Len(ops) < MaxOps
    /\ IF saved.exists
       THEN /\ objective' = saved.objective
            /\ actions_taken' = saved.actions
            /\ ops' = Append(ops, OpRecord("load", "", 0))
       ELSE /\ ops' = Append(ops, OpRecord("load", "FileNotFoundError", 0))
            /\ UNCHANGED <<objective, actions_taken>>
    /\ UNCHANGED <<pc, steps, requested, context, memory, calls, trace, stored,
                   saved, probe, dicts, agents>>

\* AgenticGPT.replay
Replay(envs) ==
    /\ pc \in {"ready", "returned"}
    /\ Len(ops) < MaxOps
    /\ \E r \in {ReplayFrom(AgentState, actions_taken, envs, 1)} :
           /\ context' = r.st.context
           /\ memory' = r.st.memory
           /\ calls' = r.st.calls
           /\ stored' = r.st.stored
           /\ ops' = Append(ops, OpRecord("replay", r.exc, r.dispatched))
    /\ UNCHANGED <<pc, steps, requested, actions_taken, trace, objective, saved,
                   probe, dicts, agents>>

LogNext ==
    \/ SaveActionsTaken
    \/ FromSavedActions
    \/ \E envs \in EnvSeqs(actions_taken) : Replay(envs)

LogSpec == LogInit /\ [][LogNext]_vars

(***************************************************************************)
(* The agent as a script uses it: the operations on the log before and     *)
(* after one call of run().                                                *)
(***************************************************************************)
\* the completions of a run between operations on the log: text that is no
\* JSON, and commands that make a folder and declare done
AgentCommands ==
    {[action |-> "mkdir", args |-> <<Str("x")>>, kwargs |-> <<>>],
     [action |-> DONE_FUNCTION, args |-> <<>>, kwargs |-> <<>>]}

AgentCompletions ==
    {c \in Completions :
        \/ c.kind = "text"
        \/ c.kind = "json" /\ CommandLookup(c.obj) = "" /\ ThoughtsLookup(c.obj) = ""
              /\ c.obj.command \in AgentCommands}

\* the file at the path: none, or a log with a clarification record
AgentFiles == {f \in LogFiles : f.exists => f.objective = "Make the folder the user wants"}

AgentInit == LogInit /\ saved \in AgentFiles

AgentNext ==
    \/ RunStart
    \/ \E c \in AgentCompletions : StepDecodeError(c)
    \/ \E c \in AgentCompletions : \E o \in Envs(c) : StepProcess(c, o)
    \/ SaveActionsTaken
    \/ FromSavedActions
    \/ \E envs \in EnvSeqs(actions_taken) : Replay(envs)

AgentSpec == AgentInit /\ [][AgentNext]_vars

(***************************************************************************)
(* The memory store on its own: the methods of Memory called one after the *)
(* other on a store the constructor built.                                 *)
(***************************************************************************)
\* names and texts of the documents added, one text of five characters and
\* one of six
DocNames == {"d", "n", "e"}

DocTexts == {"hello", "hello!"}

\* the max_length argument of get_document
MaxLengths == {5}

\* one call of a method of Memory: its arguments, its exception, its result
MemCall(op, name, arg, exc, result, retrieved) ==
    [op |-> op, name |-> name, arg |-> arg, exc |-> exc, result |-> result,
     retrieved |-> retrieved]

\* the documents argument of the constructor of Memory
MemDicts == MemoryDicts \cup {<<<<"d", "hello">>, <<"n", "hello!">>>>}

MemInit ==
    /\ pc = "ready"
    /\ steps = 0
    /\ requested = 0
    /\ actions_taken = <<>>
    /\ context = ""
    /\ \E d \in MemDicts : memory = MemoryInit(d)
    /\ calls = <<>>
    /\ trace = <<>>
    /\ stored = <<>>
    /\ objective = Objective
    /\ saved = NoFile
    /\ ops = <<>>
    /\ probe = NoProbe
    /\ dicts = NoDicts
    /\ agents = NoAgents

\* Memory.add_document(name, document)
MemAddDocument(name, document) ==
    /\ Len(ops) < MaxOps
    /\ \E r \in {AddDocument(memory, name, document)} :
           /\ memory' = r.mem
           /\ ops' = Append(ops, MemCall("add_document", name, document, r.exc, "",
                                         FALSE))
    /\ UNCHANGED <<pc, steps, requested, actions_taken, context, calls, trace,
                   stored, objective, saved, probe, dicts, agents>>

\* Memory.add_document when summarize_documents raises (the request to the
\* provider fails): line 88 has written documents[name], lines 93-98 do not
\* run
AddDocumentSummaryFails(mem, name, document) ==
    [mem |-> [mem EXCEPT !.documents = Put(@, name, document)], exc |-> "APIError"]

\* Memory.add_document(name, document), the summarization failing
MemAddDocumentFails(name, document) ==
    /\ Len(ops) < MaxOps
    /\ \E r \in {AddDocumentSummaryFails(memory, name, document)} :
           /\ memory' = r.mem
           /\ ops' = Append(ops, MemCall("add_document", name, document, r.exc, "",
                                         FALSE))
    /\ UNCHANGED <<pc, steps, requested, actions_taken, context, calls, trace,
                   stored, objective, saved, probe, dicts, agents>>

\* Memory.to_prompt_string()
MemToPromptString ==
    /\ Len(ops) < MaxOps
    /\ \E r \in {ToPromptString(memory)} :
           ops' = Append(ops, MemCall("to_prompt_string", "", "", r.exc, r.result,
                                      FALSE))
    /\ UNCHANGED <<pc, steps, requested, actions_taken, context, memory, calls,
                   trace, stored, objective, saved, probe, dicts, agents>>

\* Memory.get_document(name, max_length=max_length)
MemGetDocument(name, max_length) ==
    /\ Len(ops) < MaxOps
    /\ \E segment \in IF Has(memory.documents, name)
                       THEN Segments(Get(memory.documents, name)) ELSE {""} :
         \E r \in {GetDocument(memory, name, max_length, segment)} :
           ops' = Append(ops, MemCall("get_document", name, max_length, r.exc,
                                      r.result, r.retrieved))
    /\ UNCHANGED <<pc, steps, requested, actions_taken, context, memory, calls,
                   trace, stored, objective, saved, probe, dicts, agents>>

MemNext ==
    \/ \E name \in DocNames : \E document \in DocTexts : MemAddDocument(name, document)
    \/ \E name \in DocNames : \E document \in DocTexts :
           MemAddDocumentFails(name, document)
    \/ MemToPromptString
    \/ \E name \in DocNames : \E max_length \in MaxLengths :
           MemGetDocument(name, max_length)

MemSpec == MemInit /\ [][MemNext]_vars

\* this transition is a call of the method op of Memory
MemStep(op) == Len(ops') = Len(ops) + 1 /\ LastOp'.op = op

(***************************************************************************)
(* Two agents of one process.  A dictionary is an object: the default      *)
(* value of the parameter memory_dict is one object for every call of the  *)
(* constructor, and Memory keeps the object it is given.                   *)
(***************************************************************************)
AgentIds == {"a", "b"}

\* the dictionaries a constructor may be given: the default value of
\* memory_dict (no argument), or a dictionary the calling script holds
DictIds == {"default", "caller"}

NotConstructed == [constructed |-> FALSE]

\* the memory of agent a: self.documents is the dictionary object itself
MemoryOf(ds, ags, a) ==
    [documents |-> ds[ags[a].documents],
     document_store |-> ags[a].document_store,
     router_index |-> ags[a].router_index]

OwnCall(op, agent, name, arg, exc) ==
    [op |-> op, agent |-> agent, name |-> name, arg |-> arg, exc |-> exc]

OwnInit ==
    /\ pc = "ready"
    /\ steps = 0
    /\ requested = 0
    /\ actions_taken = <<>>
    /\ context = ""
    /\ memory = MemoryInit(<<>>)
    /\ calls = <<>>
    /\ trace = <<>>
    /\ stored = <<>>
    /\ objective = Objective
    /\ saved = NoFile
    /\ ops = <<>>
    /\ probe = NoProbe
    /\ \E d \in {<<>>, <<<<"d", "hello">>>>} : dicts = [default |-> <<>>, caller |-> d]
    /\ agents = [a \in AgentIds |-> NotConstructed]

\* AgenticGPT(objective, memory_dict=dicts[given]), or AgenticGPT(objective)
\* when given is the default: Memory.__init__ on that dictionary object
ConstructAgent(a, given) ==
    /\ ~agents[a].constructed
    /\ Len(ops) < MaxOps
    /\ \E m \in {MemoryInit(dicts[given])} :
           agents' = [agents EXCEPT
                         ![a] = [constructed |-> TRUE, documents |-> given,
                                 document_store |-> m.document_store,
                                 router_index |-> m.router_index]]
    /\ ops' = Append(ops, OwnCall("construct", a, given, "", ""))
    /\ UNCHANGED <<pc, steps, requested, actions_taken, context, memory, calls,
                   trace, stored, objective, saved, probe, dicts>>

\* agent a adds a document to its memory: Memory.add_document writes into
\* the dictionary object self.documents is
AgentAddDocument(a, name, document) ==
    /\ agents[a].constructed
    /\ Len(ops) < MaxOps
    /\ \E r \in {AddDocument(MemoryOf(dicts, agents, a), name, document)} :
           /\ dicts' = [dicts EXCEPT ![agents[a].documents] = r.mem.documents]
           /\ agents' = [agents EXCEPT
                            ![a].document_store = r.mem.document_store,
                            ![a].router_index = r.mem.router_index]
           /\ ops' = Append(ops, OwnCall("add_document", a, name, document, r.exc))
    /\ UNCHANGED <<pc, steps, requested, actions_taken, context, memory, calls,
                   trace, stored, objective, saved, probe>>

OwnNext ==
    \/ \E a \in AgentIds : \E given \in DictIds : ConstructAgent(a, given)
    \/ \E a \in AgentIds : \E name \in DocNames : \E document \in DocTexts :
           AgentAddDocument(a, name, document)

OwnSpec == OwnInit /\ [][OwnNext]_vars

(***************************************************************************)
(* get_completion and its retries.  openai_call answers a transient error  *)
(* of the provider by sleeping and calling get_completion again from       *)
(* inside its except clause, so every retry is two frames deeper on the    *)
(* call stack, and the interpreter raises RecursionError for a call that   *)
(* would exceed its recursion limit.                                       *)
(***************************************************************************)
\* sys.getrecursionlimit(), scaled down (1000 in CPython)
RecursionLimit == 9

\* the frames below the first get_completion: the script and run()
BaseFrames == 2

\* the frames of attempt number k (from 0): one get_completion and one
\* openai_call per attempt so far, and ChatCompletion.create on top
Frames(k) == BaseFrames + 2 * (k + 1) + 1

\* CanRetry without the recursion limit of the interpreter
CanRetryAlways(k) == TRUE

\* whether the retry after the failed attempt k fits on the call stack
CanRetry(k) == Frames(k + 1) <= RecursionLimit

\* the completions of a run whose requests are retried
RetryCompletions ==
    {c \in Completions :
        \/ c.kind \in {"text", "errdict"}
        \/ c.kind = "json" /\ CommandLookup(c.obj) = "" /\ ThoughtsLookup(c.obj) = ""
              /\ c.obj.command \in {[action |-> "say_hi", args |-> <<>>, kwargs |-> <<>>],
                                     [action |-> DONE_FUNCTION, args |-> <<>>,
                                      kwargs |-> <<>>]}}

\* SUPPORTED_LANGUAGE_MODELS[self.model]["max_length"], scaled down to the
\* length of the context one decode error leaves
MaxContextLength == 135

\* what retrieve_segment_of_text may return for a long context: the text of
\* the first source node, a piece of the context (here its head or its tail)
ContextSegments(ctx) ==
    IF Len(ctx) > MaxContextLength
    THEN {SubSeq(ctx, 1, MaxContextLength),
          SubSeq(ctx, Len(ctx) - MaxContextLength + 1, Len(ctx))}
    ELSE {""}

\* GetContext that keeps the retrieved segment as the context
GetContextTruncating(ctx, segment) ==
    IF Len(ctx) > MaxContextLength
    THEN [shown |-> segment, retrieved |-> TRUE, stored |-> segment]
    ELSE [shown |-> ctx, retrieved |-> FALSE, stored |-> ctx]

\* AgenticGPT.__get_context: what the prompt shows, whether the retrieval
\* was asked, and self.context afterwards (it is not assigned)
GetContext(ctx, segment) ==
    IF Len(ctx) > MaxContextLength
    THEN [shown |-> segment, retrieved |-> TRUE, stored |-> ctx]
    ELSE [shown |-> ctx, retrieved |-> FALSE, stored |-> ctx]

\* the call of get_completion of the iteration in progress, and the
\* sections of the prompt it was given
CompletionCall(state, attempts, last, result, exc, files, shown, retrieved) ==
    [fn |-> "get_completion", for |-> requested, state |-> state,
     attempts |-> attempts, last |-> last, result |-> result, exc |-> exc,
     files |-> files, shown |-> shown, retrieved |-> retrieved]

\* lines 348-356: run() builds the prompt and calls get_completion for the
\* next iteration
CallGetCompletion ==
    /\ pc = "running"
    /\ probe.fn = "get_completion" => probe.state = "returned" /\ probe.for < requested
    /\ \E segment \in ContextSegments(context) :
         \E g \in {GetContext(context, segment)} :
           /\ context' = g.stored
           /\ probe' = CompletionCall("calling", 0, "none", PyNone, "",
                                      ToPromptString(memory).result, g.shown,
                                      g.retrieved)
    /\ UNCHANGED <<pc, steps, requested, actions_taken, memory, calls,
                   trace, stored, objective, saved, ops, dicts, agents>>

\* llm_providers.py lines 35-62: ChatCompletion.create raises RateLimitError,
\* APIError, Timeout or APIConnectionError; openai_call sleeps and calls
\* get_completion again, which raises RecursionError when the stack is full
\* and nothing catches that, in the wrapper or in run()
AttemptTransient ==
    /\ probe.fn = "get_completion" /\ probe.state = "calling"
    /\ IF CanRetry(probe.attempts)
       THEN /\ probe' = [probe EXCEPT !.attempts = @ + 1, !.last = "transient"]
            /\ UNCHANGED pc
       ELSE /\ probe' = [probe EXCEPT !.attempts = @ + 1, !.last = "transient",
                                      !.state = "raised", !.exc = "RecursionError"]
            /\ pc' = "crashed"
    /\ UNCHANGED <<steps, requested, actions_taken, context, memory, calls,
                   trace, stored, objective, saved, ops, dicts, agents>>

\* lines 35-46 and 64: the attempt succeeds and every pending call returns
\* its text
AttemptSucceeds(c) ==
    /\ probe.fn = "get_completion" /\ probe.state = "calling"
    /\ c.kind # "errdict"
    /\ probe' = [probe EXCEPT !.attempts = @ + 1, !.last = "success",
                              !.state = "returned", !.result = c]
    /\ UNCHANGED <<pc, steps, requested, actions_taken, context, memory, calls,
                   trace, stored, objective, saved, ops, dicts, agents>>

\* lines 19-28: the attempt raises InvalidRequestError; get_completion
\* returns a dict, which every pending call returns in its turn
AttemptInvalidRequest(c) ==
    /\ probe.fn = "get_completion" /\ probe.state = "calling"
    /\ c.kind = "errdict"
    /\ probe' = [probe EXCEPT !.attempts = @ + 1, !.last = "invalid_request",
                              !.state = "returned", !.result = c]
    /\ UNCHANGED <<pc, steps, requested, actions_taken, context, memory, calls,
                   trace, stored, objective, saved, ops, dicts, agents>>

\* the call of this iteration has returned c
Served(c) ==
    /\ probe.fn = "get_completion"
    /\ probe.state = "returned"
    /\ probe.for = requested
    /\ probe.result = c

RetryNext ==
    \/ RunStart
    \/ CallGetCompletion
    \/ AttemptTransient
    \/ \E c \in RetryCompletions : AttemptSucceeds(c)
    \/ \E c \in RetryCompletions : AttemptInvalidRequest(c)
    \/ \E c \in RetryCompletions : Served(c) /\ StepDecodeError(c)
    \/ \E c \in RetryCompletions : Served(c) /\ StepLoadsCrash(c)
    \/ \E c \in RetryCompletions : \E o \in Envs(c) : Served(c) /\ StepProcess(c, o)

RetrySpec == Init /\ [][RetryNext]_vars

(***************************************************************************)
(* PlaywrightAgent (registry/playwright_agent.py), a subclass of           *)
(* AgenticGPT whose actions drive a browser page.  A page is the sequence  *)
(* of its elements in document order; an element is known by its position *)
(* in the page.                                                            *)
(***************************************************************************)
Element(tag, visible, alt, role, text) ==
    [tag |-> tag, visible |-> visible, alt |-> alt, role |-> role, text |-> text]

BlankPage == <<>>

\* the pages the browser may show after a navigation
Pages ==
    {<<Element("a", TRUE, "", "", "go"), Element("input", TRUE, "", "", ""),
       Element("img", TRUE, "cat", "", "")>>,
     <<Element("input", FALSE, "", "", ""), Element("img", TRUE, "", "", ""),
       Element("a", TRUE, "", "", ""), Element("div", TRUE, "", "", "x"),
       Element("div", TRUE, "", "button", "y"), Element("button", TRUE, "", "", "ok"),
       Element("textarea", TRUE, "", "", ""), Element("input", TRUE, "", "", "")>>}

\* page.locator(tag).all(): the elements of the tag, in document order
RECURSIVE Locate(_, _, _)
Locate(page, tag, k) ==
    IF k > Len(page) THEN <<>>
    ELSE (IF page[k].tag = tag THEN <<k>> ELSE <<>>) \o Locate(page, tag, k + 1)

\* lines 181-192: the candidate elements, by kind
Elements(page) ==
    Locate(page, "input", 1) \o Locate(page, "textarea", 1) \o Locate(page, "a", 1)
        \o Locate(page, "button", 1) \o Locate(page, "img", 1)
        \o SelectSeq(Locate(page, "div", 1),
                     LAMBDA i : page[i].role \in {"button", "textbox"})

\* lines 200-201, 240-245: the elements the view leaves out
Skipped(element) ==
    \/ ~element.visible
    \/ element.tag = "img" /\ element.alt = ""
    \/ element.tag \in {"div", "a", "button"} /\ element.text = ""

\* lines 205-236: str(bs_tag); an input without value and placeholder gets
\* str(None) for both
Transformed(element, curr_idx) ==
    "<" \o element.tag
        \o (IF element.alt # "" THEN " alt=\"" \o element.alt \o "\"" ELSE "")
        \o (IF element.role # "" THEN " role=\"" \o element.role \o "\"" ELSE "")
        \o (IF element.tag = "input" THEN " value=\"None\" placeholder=\"None\"" ELSE "")
        \o " id=\"" \o ToString(curr_idx) \o "\">" \o element.text
        \o "</" \o element.tag \o ">"

\* PreprocessFrom in which a skipped element takes an id as well
RECURSIVE PreprocessFromCountingSkipped(_, _, _, _, _)
PreprocessFromCountingSkipped(page, elements, k, curr_idx, mapping) ==
    IF k > Len(elements) THEN mapping
    ELSE IF Skipped(page[elements[k]])
    THEN PreprocessFromCountingSkipped(page, elements, k + 1, curr_idx + 1, mapping)
    ELSE PreprocessFromCountingSkipped(
             page, elements, k + 1, curr_idx + 1,
             Put(mapping, curr_idx,
                 [object |-> elements[k],
                  transformed |-> Transformed(page[elements[k]], curr_idx),
                  text |-> page[elements[k]].text]))

\* lines 194-253: the loop over the candidate elements from the k-th on
RECURSIVE PreprocessFrom(_, _, _, _, _)
PreprocessFrom(page, elements, k, curr_idx, mapping) ==
    IF k > Len(elements) THEN mapping
    ELSE IF Skipped(page[elements[k]])
    THEN PreprocessFrom(page, elements, k + 1, curr_idx, mapping)
    ELSE PreprocessFrom(
             page, elements, k + 1, curr_idx + 1,
             Put(mapping, curr_idx,
                 [object |-> elements[k],
                  transformed |-> Transformed(page[elements[k]], curr_idx),
                  text |-> page[elements[k]].text]))

\* lines 18-25: one line per key of the mapping, numbered by enumerate
ViewLines(mapping) ==
    [i \in 1..Len(mapping) |->
        [id |-> (i - 1) + 1, html_string |-> mapping[i][2].transformed]]

RECURSIVE JoinLines(_)
JoinLines(lines) ==
    IF lines = <<>> THEN ""
    ELSE "element id #" \o ToString(lines[1].id) \o ": " \o lines[1].html_string
            \o (IF Len(lines) = 1 THEN "" ELSE "\n" \o JoinLines(Tail(lines)))

GetCurrentBrowserViewFromMapping(mapping) == JoinLines(ViewLines(mapping))

\* PlaywrightAgent.__preprocess_html_for_prompt
PreprocessHtmlForPrompt(page) ==
    With(PreprocessFrom(page, Elements(page), 1, 1, <<>>),
         LAMBDA mapping :
            [mapping |-> mapping, lines |-> ViewLines(mapping),
             prompt_str |-> GetCurrentBrowserViewFromMapping(mapping)])

\* PlaywrightAgent.__get_context
PlaywrightGetContext(page) ==
    With(PreprocessHtmlForPrompt(page),
         LAMBDA r :
            [mapping |-> r.mapping, lines |-> r.lines,
             context |->
                 "The format of the browser content is highly simplified; all formatting elements are stripped.\n"
                     \o "When choosing elements, please use the " \o Backquote \o "id"
                     \o Backquote \o " number.\n\n" \o r.prompt_str])

\* the browser side of the agent: the page, self._current_browser_mapping
\* (None until the first view), the lines of the latest view, and the element
\* the latest click or fill acted on (0: none)
Browser(page, has_mapping, mapping, lines, acted) ==
    [page |-> page, has_mapping |-> has_mapping, mapping |-> mapping,
     lines |-> lines, acted |-> acted]

\* int(s) for the strings of one digit
IntOf(s) ==
    IF \E n \in 0..9 : ToString(n) = s
    THEN [exc |-> "", n |-> CHOOSE n \in 0..9 : ToString(n) = s]
    ELSE [exc |-> "ValueError", n |-> 0]

\* PlaywrightAgent.__get_object_from_mapping
GetObjectFromMapping(b, element_id_num) ==
    With(IF element_id_num.t = "str" THEN IntOf(element_id_num.s)
         ELSE [exc |-> "", n |-> element_id_num.n],
         LAMBDA key :
            IF key.exc # ""
            THEN [exc |-> key.exc, msg |-> "invalid literal for int()", object |-> 0]
            ELSE IF ~b.has_mapping
            THEN [exc |-> "TypeError", msg |-> "'NoneType' object is not subscriptable",
                  object |-> 0]
            ELSE IF ~Has(b.mapping, key.n)
            THEN [exc |-> "KeyError", msg |-> ToString(key.n), object |-> 0]
            ELSE [exc |-> "", msg |-> "", object |-> Get(b.mapping, key.n).object])

BrowserActions ==
    {"go_to_page", "click_element", "type_into_element", "type_and_submit_into_element"}

\* the number of arguments of the callable behind a browser action
Arity(name) == IF name \in {"go_to_page", "click_element"} THEN 1 ELSE 2

\* lines 133-134, 143-144, 155-156, 164-165: the view is taken again and
\* returned as {"context": ...}
ReturnContext(b) ==
    With(PlaywrightGetContext(b.page),
         LAMBDA c :
            [exc |-> "", msg |-> "", result |-> PyCtxDict(c.context), ran |-> TRUE,
             browser |-> [b EXCEPT !.has_mapping = TRUE, !.mapping = c.mapping,
                                   !.lines = c.lines]])

\* __go_to_page, __click_element, __type_into_element and
\* __type_and_submit_into_element: p is the page the browser shows after a
\* navigation, o whether Playwright carries the operation out
BrowserFunction(name, args, b, p, o) ==
    IF Len(args) # Arity(name)
    THEN [exc |-> "TypeError", msg |-> "missing or unexpected positional argument",
          result |-> PyNone, ran |-> FALSE, browser |-> b]
    ELSE IF name = "go_to_page"
    THEN IF o = "fail"
         THEN [exc |-> "Error", msg |-> "Cannot navigate to invalid URL",
               result |-> PyNone, ran |-> TRUE, browser |-> b]
         ELSE ReturnContext([b EXCEPT !.page = p])
    ELSE With(GetObjectFromMapping(b, args[1]),
              LAMBDA e :
                 IF e.exc # ""
                 THEN [exc |-> e.exc, msg |-> e.msg, result |-> PyNone, ran |-> TRUE,
                       browser |-> b]
                 ELSE IF o = "fail"
                 THEN [exc |-> "AgentError", msg |-> "Timeout 30000ms exceeded.",
                       result |-> PyNone, ran |-> TRUE,
                       browser |-> [b EXCEPT !.acted = e.object]]
                 ELSE ReturnContext([b EXCEPT !.acted = e.object,
                                              !.page = IF name = "type_into_element"
                                                       THEN @ ELSE p]))

\* Action.execute around a browser action
BrowserExecute(name, args, b, p, o) ==
    With(BrowserFunction(name, args, b, p, o),
         LAMBDA r :
            IF r.exc # ""
            THEN [r EXCEPT !.exc = "AgentError",
                           !.msg = "Error executing action. Error message: " \o r.msg]
            ELSE r)

\* process_response for a command that names a browser action
BrowserProcessResponse(st, b, response_obj, p, o) ==
    With(ResolveCommand(st.memory, response_obj.command),
         LAMBDA a :
            IF a.exc # ""
            THEN [outcome |-> Outcome(a.exc, a.msg, st, PyNone), browser |-> b]
            ELSE With(BrowserExecute(response_obj.command.action, a.args, b, p, o),
                      LAMBDA r :
                         With([st EXCEPT
                                  !.calls = IF r.ran
                                            THEN Append(@, [name |-> response_obj.command.action,
                                                            args |-> a.args])
                                            ELSE @],
                              LAMBDA st1 :
                                 [browser |-> r.browser,
                                  outcome |->
                                      IF r.exc # "" THEN Outcome(r.exc, r.msg, st1, PyNone)
                                      ELSE StoreResult(st1, response_obj.command.action,
                                                       response_obj.command.action,
                                                       r.result)])))

\* Python's private names: __name written in the body of class cls is the
\* attribute _cls__name
Mangle(cls, name) == "_" \o cls \o name

\* the attributes the two classes define
ClassAttributes(cls) ==
    IF cls = "PlaywrightAgent"
    THEN {Mangle("PlaywrightAgent", n) :
             n \in {"__get_context", "__get_object_from_mapping", "__click_element",
                    "__type_into_element", "__type_and_submit_into_element",
                    "__go_to_page", "__preprocess_html_for_prompt"}}
    ELSE {Mangle("AgenticGPT", n) :
             n \in {"__init_actions_available", "__get_available_actions",
                    "__get_actions_taken", "__get_memory_string", "__get_context",
                    "__template_from_memory", "__name_action_returned_variable"}}
         \cup {"process_response", "run", "replay", "save_actions_taken"}

\* the class whose method an attribute of a PlaywrightAgent is: the first of
\* PlaywrightAgent, AgenticGPT that defines it
DefiningClass(attr) ==
    IF attr \in ClassAttributes("PlaywrightAgent") THEN "PlaywrightAgent"
    ELSE "AgenticGPT"

\* line 349 on a PlaywrightAgent: self.__get_context() written in the body of
\* AgenticGPT.run
RunGetContext(ctx, segment, b) ==
    IF DefiningClass(Mangle("AgenticGPT", "__get_context")) = "PlaywrightAgent"
    THEN With(PlaywrightGetContext(b.page),
              LAMBDA c :
                 [shown |-> c.context, stored |-> ctx,
                  browser |-> [b EXCEPT !.has_mapping = TRUE, !.mapping = c.mapping,
                                        !.lines = c.lines]])
    ELSE [shown |-> GetContext(ctx, segment).shown, stored |-> ctx, browser |-> b]

\* what the language model may answer to a PlaywrightAgent
BrowserCommands ==
    {[action |-> "go_to_page", args |-> <<Str("u")>>],
     [action |-> "click_element", args |-> <<PyInt(1)>>],
     [action |-> "click_element", args |-> <<Str("2")>>],
     [action |-> "type_into_element", args |-> <<PyInt(1), Str("t")>>],
     [action |-> "type_and_submit_into_element", args |-> <<PyInt(2), Str("t")>>]}

\* the state of the agent's browser side and of its latest iteration: the
\* context section of the prompt the iteration built, whether its action
\* returned, and the context the action returned
BrowserProbe(b, shown, succeeded, own) ==
    [fn |-> "browser", browser |-> b, shown |-> shown, succeeded |-> succeeded,
     own |-> own]

\* the constructor passes no memory_dict: the memory is built over the
\* default dict, empty unless an earlier agent wrote to it
BrowserInit ==
    /\ pc = "ready"
    /\ steps = 0
    /\ requested = 0
    /\ actions_taken = <<>>
    /\ context = ""
    /\ \E d \in {<<>>, <<<<"d", "hello">>>>} : memory = MemoryInit(d)
    /\ calls = <<>>
    /\ trace = <<>>
    /\ stored = <<>>
    /\ objective = Objective
    /\ saved = NoFile
    /\ ops = <<>>
    /\ probe = BrowserProbe(Browser(BlankPage, FALSE, <<>>, <<>>, 0), "", FALSE, "")
    /\ dicts = NoDicts
    /\ agents = NoAgents

\* lines 347-414: one iteration of run() in which the completion is a
\* well-formed answer that names a browser action
BrowserStep(command, p, o) ==
    /\ pc = "running"
    /\ probe.fn = "browser"
    /\ requested' = requested + 1
    /\ steps' = steps + 1
    /\ \E segment \in ContextSegments(context) :
       \E g \in {RunGetContext(context, segment, probe.browser)} :
       \E obj \in {[thoughts |-> Thoughts, command |-> command]} :
       \E r \in {BrowserProcessResponse([context |-> g.stored, memory |-> memory,
                                         calls |-> calls, stored |-> stored],
                                        g.browser, obj, p, o)} :
           /\ memory' = r.outcome.memory
           /\ calls' = r.outcome.calls
           /\ stored' = r.outcome.stored
           /\ probe' = BrowserProbe(r.browser, g.shown,
                                    r.outcome.action_result # PyNone,
                                    IF r.outcome.action_result # PyNone
                                    THEN r.outcome.action_result.context ELSE "")
           /\ IF r.outcome.exc = "AgentError"
              THEN /\ context' = ErrorContext(obj, r.outcome.msg)
                   /\ pc' = LoopTest(steps')
                   /\ trace' = Append(trace, StepRecord("agent_error",
                                                        [kind |-> "json", obj |-> obj],
                                                        o, r.outcome.exc))
                   /\ UNCHANGED actions_taken
              ELSE IF r.outcome.exc # ""
              THEN /\ context' = r.outcome.context
                   /\ pc' = "crashed"
                   /\ trace' = Append(trace, StepRecord("crash",
                                                        [kind |-> "json", obj |-> obj],
                                                        o, r.outcome.exc))
                   /\ UNCHANGED actions_taken
              ELSE /\ context' = r.outcome.context
                   /\ actions_taken' = Record(actions_taken, obj)
                   /\ pc' = AfterRecord(command.action, steps')
                   /\ trace' = Append(trace, StepRecord("recorded",
                                                        [kind |-> "json", obj |-> obj],
                                                        o, ""))
    /\ UNCHANGED <<objective, saved, ops, dicts, agents>>

BrowserNext ==
    \/ RunStart
    \/ \E command \in BrowserCommands : \E p \in Pages : \E o \in {"ok", "fail"} :
          /\ (command.action = "type_into_element" \/ o = "fail") => p = probe.browser.page
          /\ BrowserStep(command, p, o)

BrowserSpec == BrowserInit /\ [][BrowserNext]_vars

(***************************************************************************)
(* Vocabulary of the properties.                                           *)
(***************************************************************************)
\* this transition is one iteration of run(): a completion was requested
StepTaken == requested' = requested + 1

\* the completion is JSON that matches the response schema
WellFormed(c) ==
    /\ c.kind = "json"
    /\ CommandLookup(c.obj) = ""
    /\ ThoughtsLookup(c.obj) = ""

StartsWith(s, prefix) == Len(s) >= Len(prefix) /\ SubSeq(s, 1, Len(prefix)) = prefix

EndsWith(s, suffix) ==
    Len(s) >= Len(suffix) /\ SubSeq(s, Len(s) - Len(suffix) + 1, Len(s)) = suffix

\* the names a string refers to as {{name}}
RECURSIVE Refs(_)
Refs(s) ==
    LET i == Find(s, "{{", 1)
        j == IF i = 0 THEN 0 ELSE Find(s, "}}", i + 2)
    IN  IF i = 0 \/ j = 0 THEN {}
        ELSE {SubSeq(s, i + 2, j - 1)} \cup Refs(SubSeq(s, j + 2, Len(s)))

\* the argument values of a command, positional and keyword
ArgValues(command) ==
    {CommandArgs(command)[i] : i \in 1..Len(CommandArgs(command))}
        \cup {CommandKwargs(command)[i][2] : i \in 1..Len(CommandKwargs(command))}

\* some string argument refers to a name that is no document of mem
HasMissingRef(mem, command) ==
    \E v \in ArgValues(command) :
        v.t = "str" /\ \E n \in Refs(v.s) : ~Has(mem.documents, n)

\* whether dispatching obj on memory mem reaches the call of a registered
\* callable (called), and what that call then does (r)
NotCalled == [called |-> FALSE]

CallOf(mem, obj, o) ==
    IF CommandLookup(obj) # "" \/ ThoughtsLookup(obj) # "" THEN NotCalled
    ELSE IF FindAction(obj.command.action) = 0 THEN NotCalled
    ELSE With(ResolveCommand(mem, obj.command),
              LAMBDA a :
                 IF a.exc # "" \/ a.kwargs # <<>> THEN NotCalled
                 ELSE [called |-> TRUE,
                       r |-> Function(obj.command.action, a.args, mem, o)])

\* the call of the iteration this transition is, when it is one that
\* consumed JSON
StepCall ==
    IF StepTaken /\ Last'.completion.kind = "json"
    THEN CallOf(memory, Last'.completion.obj, Last'.env)
    ELSE NotCalled

(***************************************************************************)
(* C1.  run() requests at most max_steps completions; the iteration that   *)
(* dispatches declare_done successfully is the last one, run() returns in  *)
(* it, and run() returns earlier than the budget only that way.            *)
(***************************************************************************)
DoneRecorded(rec) ==
    rec.outcome = "recorded" /\ rec.completion.obj.command.action = DONE_FUNCTION

C1_Termination ==
    /\ requested <= MaxSteps
    /\ \A i \in 1..Len(trace) :
          DoneRecorded(trace[i]) => i = Len(trace) /\ pc = "returned" /\ requested = i
    /\ pc = "running" => requested < MaxSteps
    /\ pc = "returned" => requested = MaxSteps \/ DoneRecorded(Last)

C1_Witness == pc = "returned" /\ requested = 2 /\ requested < MaxSteps /\ DoneRecorded(Last)

(***************************************************************************)
(* C2.  As claimed, for the iterations that run() survives: every          *)
(* iteration that consumes a well-formed completion appends exactly one    *)
(* record and increases the step count by one.                             *)
(***************************************************************************)
C2_Original ==
    [][(StepTaken /\ WellFormed(Last'.completion) /\ pc' # "crashed")
          => /\ steps' = steps + 1
             /\ Len(actions_taken') = Len(actions_taken) + 1]_vars

(***************************************************************************)
(* C2, amended.  Every iteration that consumes a well-formed completion    *)
(* increases the step count by one; it appends exactly the consumed        *)
(* command when the dispatch returns without raising, and nothing when the *)
(* dispatch raises.                                                        *)
(***************************************************************************)
C2_Amended ==
    [][(StepTaken /\ WellFormed(Last'.completion))
          => /\ steps' = steps + 1
             /\ IF Last'.exc = ""
                THEN actions_taken' = Append(actions_taken, Last'.completion.obj)
                ELSE actions_taken' = actions_taken]_vars

C2_Witness ==
    /\ Len(trace) = 2
    /\ WellFormed(trace[1].completion) /\ trace[1].exc = ""
    /\ WellFormed(trace[2].completion) /\ trace[2].exc = "AgentError"
    /\ Len(actions_taken) = 1
    /\ steps = 2

(***************************************************************************)
(* C3.  An iteration whose completion is not JSON increases the step count *)
(* by one, leaves actions_taken and the memory alone, invokes no callable, *)
(* leaves the decode error text in the context, and the loop goes on if    *)
(* budget remains.                                                         *)
(***************************************************************************)
C3_DecodeError ==
    [][(StepTaken /\ Last'.completion.kind = "text")
          => /\ steps' = steps + 1
             /\ actions_taken' = actions_taken
             /\ memory' = memory
             /\ calls' = calls
             /\ IsSubstring(DecodeErrorText(Last'.completion.text), context')
             /\ pc' = IF steps' < MaxSteps THEN "running" ELSE "returned"]_vars

C3_Witness ==
    /\ Len(trace) = 2
    /\ trace[1].outcome = "recorded"
    /\ Last.outcome = "decode_error"
    /\ pc = "running"

(***************************************************************************)
(* C4.  When the callable of the chosen action raises, run() does not      *)
(* crash, the step count increases by one, nothing is appended to          *)
(* actions_taken, and the context becomes a message that names the action, *)
(* its args and kwargs, and the error.                                     *)
(***************************************************************************)
C4_ActionRaises ==
    [][\A call \in {StepCall} :
          (call.called /\ call.r.exc # "")
             => LET command == Last'.completion.obj.command
                IN  /\ pc' # "crashed"
                    /\ steps' = steps + 1
                    /\ actions_taken' = actions_taken
                    /\ StartsWith(context', "\nJust tried running action ")
                    /\ IsSubstring(command.action, context')
                    /\ "args" \in DOMAIN command
                          => IsSubstring(StrList(command.args), context')
                    /\ "kwargs" \in DOMAIN command
                          => IsSubstring(StrDict(command.kwargs), context')
                    /\ EndsWith(context', call.r.msg)]_vars

C4_Witness ==
    /\ Len(trace) = 2
    /\ trace[1].outcome = "recorded"
    /\ Last.outcome = "agent_error"
    /\ Last.completion.obj.command.action = "mkdir"
    /\ Last.completion.obj.command.args = <<Str("x")>>
    /\ Last.env = "fail"
    /\ pc = "running"

(***************************************************************************)
(* C5.  As claimed: when the invoked action returns a result that is not   *)
(* JSON-serializable, run() does not crash, the error is reported in the   *)
(* context and no document is stored.                                      *)
(***************************************************************************)
C5_Claim ==
    [][\A call \in {StepCall} :
          (call.called /\ call.r.exc = "" /\ ~Serializable(call.r.result))
             => /\ pc' # "crashed"
                /\ IsSubstring("not JSON serializable", context')
                /\ memory'.documents = memory.documents]_vars

(***************************************************************************)
(* C6.  As claimed: a command with a string argument that refers to a name *)
(* that is no memory document, as the whole argument or inside other text, *)
(* fails with a recoverable error: no callable is invoked, run() does not  *)
(* crash, nothing is recorded, the loop goes on.                           *)
(***************************************************************************)
C6_Claim ==
    [][(/\ StepTaken
        /\ WellFormed(Last'.completion)
        /\ HasMissingRef(memory, Last'.completion.obj.command))
          => /\ pc' # "crashed"
             /\ Last'.exc = "AgentError"
             /\ calls' = calls
             /\ actions_taken' = actions_taken]_vars

(***************************************************************************)
(* C7.  As claimed: a completion that is JSON but does not match the       *)
(* response schema is recovered: run() does not crash, no callable is      *)
(* invoked, nothing is appended to actions_taken.                          *)
(***************************************************************************)
C7_Claim ==
    [][(/\ StepTaken
        /\ Last'.completion.kind = "json"
        /\ ~WellFormed(Last'.completion))
          => /\ pc' # "crashed"
             /\ calls' = calls
             /\ actions_taken' = actions_taken]_vars

(***************************************************************************)
(* C8.  As claimed: a run whose first completion is                        *)
(* {"command": {"action": a, "args": [], "kwargs": {}}}, a a registered    *)
(* no-argument action, invokes the callable of a exactly once and does not *)
(* crash on it.                                                            *)
(***************************************************************************)
LiteralScenarioA(a) == [command |-> [action |-> a, args |-> <<>>, kwargs |-> <<>>]]

NoArgumentActions == {"say_hi"}

SelectsDone(c) ==
    /\ WellFormed(c)
    /\ c.obj.command.action = DONE_FUNCTION
    /\ CommandArgs(c.obj.command) = <<>>
    /\ CommandKwargs(c.obj.command) = <<>>

ScenarioA(a) ==
    /\ Len(trace) >= 2
    /\ WellFormed(trace[1].completion)
    /\ trace[1].completion.obj.command = [action |-> a, args |-> <<>>, kwargs |-> <<>>]
    /\ SelectsDone(trace[2].completion)

C9_Claim ==
    [][\A call \in {StepCall} :
          (call.called /\ call.r.exc = "" /\ Serializable(call.r.result))
             => LET variable == NameActionReturnedVariable(
                                    call.r.mem, Last'.completion.obj.command.action)
                IN  IF call.r.result # PyNone
                    THEN /\ Last'.outcome = "recorded"
                         /\ Has(memory'.documents, variable)
                         /\ Get(memory'.documents, variable) = Dumps(call.r.result)
                         /\ EndsWith(context', variable)
                    ELSE memory'.documents = call.r.mem.documents]_vars

(***************************************************************************)
(* C10.  As claimed: the name computed for an action's stored result is    *)
(* never the name of a document already in memory, so storing a result     *)
(* overwrites nothing.                                                     *)
(***************************************************************************)
C10_Claim ==
    [][\A call \in {StepCall} :
          (/\ call.called
           /\ call.r.exc = ""
           /\ Serializable(call.r.result)
           /\ call.r.result # PyNone)
             => ~Has(call.r.mem.documents,
                     NameActionReturnedVariable(
                         call.r.mem, Last'.completion.obj.command.action))]_vars

(***************************************************************************)
(* C11.  As claimed: the names under which one run stores the results of   *)
(* repeated invocations of the same action are action_result_n with        *)
(* strictly increasing, pairwise distinct suffixes n.                      *)
(***************************************************************************)
ResultSuffix(rec) ==
    SubSeq(rec.name, Len(rec.action) + Len("_result_") + 1, Len(rec.name))

C11_Claim ==
    \A i \in 1..Len(stored) : \A j \in 1..Len(stored) :
        (i < j /\ stored[i].action = stored[j].action)
            => /\ stored[i].name # stored[j].name
               /\ ParseInt(ResultSuffix(stored[i])) < ParseInt(ResultSuffix(stored[j]))

(***************************************************************************)
(* C12.  The name computed for a result of action a on a memory is a,      *)
(* "_result_" and n, n being one more than the number of document names    *)
(* of the memory that contain a anywhere in them.                          *)
(***************************************************************************)
RECURSIVE CountContaining(_, _)
CountContaining(a, docs) ==
    IF docs = <<>> THEN 0
    ELSE (IF IsSubstring(a, docs[1][1]) THEN 1 ELSE 0) + CountContaining(a, Tail(docs))

C12_Name ==
    (probe.fn = "name" /\ probe.applied)
        => probe.result
             = probe.input.action_name \o "_result_"
                 \o ToString(1 + CountContaining(probe.input.action_name,
                                                 memory.documents))

\* the name of a document contains the action name, not at its start
C12_Witness ==
    /\ probe.fn = "name" /\ probe.applied
    /\ probe.input.action_name = "mkdir"
    /\ Keys(memory.documents) = {"notes_on_mkdir", "mkdir_result_1"}
    /\ probe.result = "mkdir_result_3"

(***************************************************************************)
(* C13.  As claimed: when the dispatched action returns a mapping with the *)
(* key "context" and the step completes, the context of the agent after    *)
(* the dispatch is the value of that key.                                  *)
(***************************************************************************)
HasContextKey(v) == v.t \in {"dict", "answerdict"}

C13_Claim ==
    [][\A call \in {StepCall} :
          (/\ call.called
           /\ call.r.exc = ""
           /\ HasContextKey(call.r.result)
           /\ Last'.outcome = "recorded")
             => context' = call.r.result.context]_vars

(***************************************************************************)
(* C14.  As claimed: the argument "{{d}}", d being a document of the       *)
(* memory with the text hello, resolves without raising and the callable   *)
(* receives the string hello.                                              *)
(***************************************************************************)
C14_Claim ==
    [][(/\ StepTaken
        /\ WellFormed(Last'.completion)
        /\ Last'.completion.obj.command
              = [action |-> "mkdir", args |-> <<Str("{{d}}")>>, kwargs |-> <<>>]
        /\ Has(memory.documents, "d")
        /\ Get(memory.documents, "d") = "hello")
          => /\ Last'.exc = ""
             /\ calls' = Append(calls, [name |-> "mkdir", args |-> <<Str("hello")>>])]_vars

(***************************************************************************)
(* C15.  As claimed: an argument that is not a string, or a string without *)
(* a reference to a memory document, resolves without error to itself.     *)
(***************************************************************************)
NoReference(v) == v.t # "str" \/ Refs(v.s) = {}

C15_Claim ==
    (/\ probe.fn = "template"
     /\ probe.applied
     /\ NoReference(probe.input.variable_string))
        => /\ probe.result.exc = ""
           /\ probe.result.val = probe.input.variable_string

(***************************************************************************)
(* C16.  As claimed: a well-formed command for a registered action with    *)
(* kwargs that are not empty, and whose arguments resolve, invokes the     *)
(* callable and is recorded.                                               *)
(***************************************************************************)
WithKwargs(mem, obj) ==
    /\ obj.command.action \in Names(ActionsAvailable)
    /\ CommandKwargs(obj.command) # <<>>
    /\ ResolveCommand(mem, obj.command).exc = ""

C16_Claim ==
    [][(/\ StepTaken
        /\ WellFormed(Last'.completion)
        /\ WithKwargs(memory, Last'.completion.obj))
          => /\ Last'.outcome = "recorded"
             /\ Len(calls') = Len(calls) + 1
             /\ calls'[Len(calls')].name = Last'.completion.obj.command.action]_vars

(***************************************************************************)
(* C17.  A well-formed command whose action is not registered and whose    *)
(* arguments resolve invokes no callable, raises nothing, leaves memory    *)
(* and context alone, and is appended to actions_taken.                    *)
(***************************************************************************)
Unregistered(mem, obj) ==
    /\ obj.command.action \notin Names(ActionsAvailable)
    /\ ResolveCommand(mem, obj.command).exc = ""

C17_Unregistered ==
    [][(/\ StepTaken
        /\ WellFormed(Last'.completion)
        /\ Unregistered(memory, Last'.completion.obj))
          => /\ Last'.exc = ""
             /\ calls' = calls
             /\ memory' = memory
             /\ context' = context
             /\ stored' = stored
             /\ actions_taken' = Append(actions_taken, Last'.completion.obj)]_vars

\* an unregistered action recorded after a step that changed the context
C17_Witness ==
    /\ Len(trace) = 2
    /\ trace[1].outcome = "recorded"
    /\ context # ""
    /\ Last.outcome = "recorded"
    /\ Last.completion.obj.command.action = "fly"
    /\ Len(actions_taken) = 2
    /\ Len(calls) = 1

(***************************************************************************)
(* C18.  Construction fails exactly when a given action has the name of a  *)
(* reserved action: ask_ai, declare_done, the three memory actions, and    *)
(* ask_user_to_clarify when, and only when, ask_user_fn was given.         *)
(***************************************************************************)
ReservedNames(ask_user_fn) ==
    {"ask_ai", "declare_done", "add_document_to_memory",
     "query_all_documents_in_memory", "query_one_document_in_memory"}
        \cup (IF ask_user_fn THEN {"ask_user_to_clarify"} ELSE {})

Constructed == probe.fn = "construct" /\ probe.applied

C18_Construct ==
    Constructed
        => (probe.result.exc # ""
              <=> \E i \in 1..Len(probe.input.given_actions) :
                     probe.input.given_actions[i]
                         \in ReservedNames(probe.input.ask_user_fn))

\* a given action named like a memory action makes the construction fail
C18_Witness ==
    /\ Constructed
    /\ probe.input.given_actions = <<"mkdir", "add_document_to_memory">>
    /\ ~probe.input.ask_user_fn
    /\ probe.result.exc = "AssertionError"

(***************************************************************************)
(* C19.  As claimed: after a construction that succeeded no two actions of *)
(* the registry have the same name.                                        *)
(***************************************************************************)
C19_Claim ==
    (Constructed /\ probe.result.exc = "")
        => \A i \in 1..Len(probe.result.actions) :
              \A j \in 1..Len(probe.result.actions) :
                 probe.result.actions[i] = probe.result.actions[j] => i = j

(***************************************************************************)
(* C20.  As claimed: replay() called right after from_saved_actions loaded *)
(* a log as save_actions_taken writes it (no clarification record)         *)
(* dispatches every record of the log once, in order, and leaves           *)
(* actions_taken alone.                                                    *)
(***************************************************************************)
\* the names of the registered actions among the records, in order
RECURSIVE RegisteredNames(_)
RegisteredNames(records) ==
    IF records = <<>> THEN <<>>
    ELSE IF records[1].command.action \in Names(ActionsAvailable)
    THEN <<records[1].command.action>> \o RegisteredNames(Tail(records))
    ELSE RegisteredNames(Tail(records))

ReplayOfSavedLog ==
    /\ LastOp.op = "load" /\ LastOp.exc = ""
    /\ LastOp'.op = "replay"
    /\ Len(ops') = Len(ops) + 1
    /\ WithoutClarify(saved.actions) = saved.actions

C20_Claim ==
    [][ReplayOfSavedLog
          => /\ LastOp'.exc = ""
             /\ LastOp'.dispatched = Len(saved.actions)
             /\ Len(calls') = Len(calls) + Len(RegisteredNames(saved.actions))
             /\ \A i \in 1..Len(RegisteredNames(saved.actions)) :
                    calls'[Len(calls) + i].name = RegisteredNames(saved.actions)[i]
             /\ actions_taken' = actions_taken]_vars

(***************************************************************************)
(* C21.  save_actions_taken writes the objective and the records of        *)
(* actions_taken whose action is not ask_user_to_clarify, in their order,  *)
(* and changes neither actions_taken nor the objective, the context or the *)
(* memory.                                                                 *)
(***************************************************************************)
SaveStep == LastOp'.op = "save" /\ Len(ops') = Len(ops) + 1

C21_Save ==
    [][SaveStep
          => /\ saved'.exists
             /\ saved'.objective = objective
             /\ saved'.actions
                   = SelectSeq(actions_taken,
                               LAMBDA r : r.command.action # "ask_user_to_clarify")
             /\ UNCHANGED <<actions_taken, objective, context, memory>>]_vars

\* a log with a clarification record was loaded and saved again
C21_Witness ==
    /\ LastOp.op = "save"
    /\ Len(actions_taken) = 2
    /\ actions_taken[1].command.action = "ask_user_to_clarify"
    /\ saved.actions = <<actions_taken[2]>>

(***************************************************************************)
(* C22.  The record an iteration appends to actions_taken is the response  *)
(* as the model produced it: its args and kwargs still hold the {{name}}   *)
(* references, while the callable received the values they resolved to.    *)
(***************************************************************************)
C22_Unresolved ==
    [][(StepTaken /\ Last'.outcome = "recorded")
          => \E rec \in {actions_taken'[Len(actions_taken')]} :
                /\ rec = Last'.completion.obj
                /\ CommandArgs(rec.command)
                      = CommandArgs(Last'.completion.obj.command)
                /\ CommandKwargs(rec.command)
                      = CommandKwargs(Last'.completion.obj.command)
                /\ StepCall.called
                     => calls'[Len(calls')].args
                          = ResolveCommand(memory, rec.command).args]_vars

\* the recorded argument is a reference, the callable got the document
C22_Witness ==
    /\ Last.outcome = "recorded"
    /\ actions_taken # <<>> /\ calls # <<>>
    /\ CommandArgs(actions_taken[Len(actions_taken)].command)
          = <<Str("{{mkdir_result_1}}")>>
    /\ calls[Len(calls)].args = <<Str("Created directory: x")>>

(***************************************************************************)
(* C23.  Under every sequence of run, replay, save_actions_taken and       *)
(* from_saved_actions, actions_taken changes only by one record being      *)
(* appended at its end.                                                    *)
(***************************************************************************)
C23_Original ==
    [][\/ actions_taken' = actions_taken
       \/ /\ Len(actions_taken') = Len(actions_taken) + 1
          /\ SubSeq(actions_taken', 1, Len(actions_taken)) = actions_taken]_vars

\* this transition is a from_saved_actions that read the file
LoadStep == LastOp'.op = "load" /\ Len(ops') = Len(ops) + 1 /\ LastOp'.exc = ""

(***************************************************************************)
(* C23, amended.  actions_taken changes in two ways only: an iteration of  *)
(* run() whose dispatch returns appends the consumed response at its end,  *)
(* and from_saved_actions replaces the whole list by the records of the    *)
(* file; replay and save_actions_taken leave it unchanged.                 *)
(***************************************************************************)
C23_Amended ==
    [][IF LoadStep THEN actions_taken' = saved.actions
       ELSE IF StepTaken /\ Last'.outcome = "recorded"
       THEN actions_taken' = Append(actions_taken, Last'.completion.obj)
       ELSE actions_taken' = actions_taken]_vars

\* a load after a run that recorded an action: the record of the run is gone
C23_Witness ==
    /\ LastOp.op = "load" /\ LastOp.exc = ""
    /\ \E i \in 1..Len(trace) : trace[i].outcome = "recorded"
    /\ actions_taken = saved.actions
    /\ actions_taken[1].command.action = "ask_user_to_clarify"

(***************************************************************************)
(* C24.  Under every sequence of run, replay, save_actions_taken and       *)
(* from_saved_actions, the objective stays the one of the constructor.     *)
(***************************************************************************)
C24_Original == [][objective' = objective]_vars

(***************************************************************************)
(* C24, amended.  from_saved_actions sets the objective to the one stored  *)
(* in the file it reads; no other operation changes the objective.         *)
(***************************************************************************)
C24_Amended ==
    [][IF LoadStep THEN objective' = saved.objective
       ELSE objective' = objective]_vars

\* the objective of a loaded log, in force during a later replay
C24_Witness ==
    /\ LastOp.op = "replay"
    /\ \E i \in 1..Len(ops) : ops[i].op = "load" /\ ops[i].exc = ""
    /\ \E i \in 1..Len(trace) : trace[i].outcome = "recorded"
    /\ objective = "Make the folder the user wants"

(***************************************************************************)
(* C25.  No call of a method of the memory removes a document name or      *)
(* moves it; add_document of a name the store holds, once the document is  *)
(* summarized, replaces the text, the summary and the index of that        *)
(* document, keeps its position, and leaves every other document as it     *)
(* was.  (A call whose summarization raises is the subject of C36.)        *)
(***************************************************************************)
C25_Names ==
    [][/\ Len(memory'.documents) >= Len(memory.documents)
       /\ \A i \in 1..Len(memory.documents) :
             memory'.documents[i][1] = memory.documents[i][1]
       /\ (/\ MemStep("add_document")
           /\ LastOp'.exc # "APIError"
           /\ Has(memory.documents, LastOp'.name)
           /\ Has(memory.document_store, LastOp'.name))
             => /\ Len(memory'.documents) = Len(memory.documents)
                /\ \A i \in 1..Len(memory.documents) :
                      IF memory.documents[i][1] = LastOp'.name
                      THEN /\ memory'.documents[i][2] = LastOp'.arg
                           /\ Get(memory'.document_store, LastOp'.name)
                                 = [text |-> LastOp'.arg,
                                    summary |-> Summarize(LastOp'.arg),
                                    index |-> IndexOf(LastOp'.arg)]
                      ELSE /\ memory'.documents[i] = memory.documents[i]
                           /\ Has(memory.document_store, memory.documents[i][1])
                                => Get(memory'.document_store, memory.documents[i][1])
                                     = Get(memory.document_store,
                                           memory.documents[i][1])
      ]_vars

\* the first of two documents was added again with another text
C25_Witness ==
    /\ LastOp.op = "add_document" /\ LastOp.name = "d" /\ LastOp.arg = "hello!"
    /\ LastOp.exc = ""
    /\ Len(memory.documents) = 2
    /\ memory.documents[1] = <<"d", "hello!">>
    /\ Get(memory.document_store, "d").text = "hello!"
    /\ \E i \in 1..Len(ops) - 1 : ops[i].op = "add_document" /\ ops[i].name = "n"

(***************************************************************************)
(* C26.  add_document, the provider answering the summarization, returns   *)
(* normally on every store, the one built with no documents included, and  *)
(* afterwards the store holds the text, the summary and the index of the   *)
(* document, to_prompt_string lists it, and query_one and query_all        *)
(* answer.                                                                 *)
(***************************************************************************)
C26_Claim ==
    [][(MemStep("add_document") /\ LastOp'.exc # "APIError")
          => \E c \in {LastOp'} :
                /\ c.exc = ""
                /\ Get(memory'.documents, c.name) = c.arg
                /\ Get(memory'.document_store, c.name)
                      = [text |-> c.arg, summary |-> Summarize(c.arg),
                         index |-> IndexOf(c.arg)]
                /\ IsSubstring("- " \o c.name \o ":\n", ToPromptString(memory').result)
                /\ QueryOne(<<Str("x")>>, memory', "ok").exc = ""
                /\ QueryAll(<<Str("x")>>, memory', "ok").exc = ""]_vars

\* the entry to_prompt_string writes for the i-th document of mem
PromptEntry(mem, i) ==
    "- " \o mem.documents[i][1] \o ":\n    Summary: "
        \o Summarize(mem.documents[i][2]) \o "\n"

(***************************************************************************)
(* C27.  to_prompt_string writes one entry, name and summary, for every    *)
(* document, in the order the documents were inserted, and an explicit     *)
(* marker, not the empty string, for a store without documents.            *)
(***************************************************************************)
C27_Claim ==
    [][MemStep("to_prompt_string")
          => \E c \in {LastOp'} :
                /\ c.exc = ""
                /\ \A i \in 1..Len(memory.documents) :
                      /\ Find(c.result, PromptEntry(memory, i), 1) > 0
                      /\ i > 1 => Find(c.result, PromptEntry(memory, i - 1), 1)
                                    < Find(c.result, PromptEntry(memory, i), 1)
                /\ memory.documents = <<>> => c.result # ""]_vars

(***************************************************************************)
(* C28.  get_document of a stored name returns the text itself when the    *)
(* text is at most max_length long, exactly max_length included, and asks  *)
(* the retrieval only when the text is longer; get_document of a name the  *)
(* store does not hold raises KeyError; the store is unchanged either way. *)
(***************************************************************************)
C28_Get ==
    [][MemStep("get_document")
          => \E c \in {LastOp'} :
                /\ memory' = memory
                /\ IF Has(memory.documents, c.name)
                   THEN /\ c.exc = ""
                        /\ c.retrieved <=> Len(Get(memory.documents, c.name)) > c.arg
                        /\ ~c.retrieved => c.result = Get(memory.documents, c.name)
                   ELSE c.exc = "KeyError" /\ ~c.retrieved]_vars

\* a text of exactly max_length characters came back as it is, a longer one
\* went to the retrieval, an absent name raised
C28_Witness ==
    /\ Len(ops) = 3
    /\ \E i \in 1..3 :
          /\ ops[i].op = "get_document" /\ ops[i].exc = "" /\ ~ops[i].retrieved
          /\ Len(ops[i].result) = ops[i].arg
          /\ ops[i].result = Get(memory.documents, ops[i].name)
    /\ \E i \in 1..3 :
          /\ ops[i].op = "get_document" /\ ops[i].retrieved
          /\ Len(Get(memory.documents, ops[i].name)) = ops[i].arg + 1
    /\ \E i \in 1..3 : ops[i].op = "get_document" /\ ops[i].exc = "KeyError"

(***************************************************************************)
(* C29.  The memory of an agent is its own: a document added through one   *)
(* agent shows in the memory of no other agent (two agents constructed     *)
(* without memory_dict included) and is written into no dictionary the     *)
(* caller holds; an agent constructed without memory_dict starts with no   *)
(* documents.                                                              *)
(***************************************************************************)
C29_Claim ==
    [][/\ MemStep("add_document")
           => \E c \in {LastOp'} :
                 /\ dicts'.caller = dicts.caller
                 /\ \A y \in AgentIds \ {c.agent} :
                       (/\ agents[y].constructed
                        /\ ~(/\ agents[y].documents = "caller"
                             /\ agents[c.agent].documents = "caller"))
                          => MemoryOf(dicts', agents', y).documents
                               = MemoryOf(dicts, agents, y).documents
       /\ (MemStep("construct") /\ LastOp'.name = "default")
           => MemoryOf(dicts', agents', LastOp'.agent).documents = <<>>]_vars

(***************************************************************************)
(* C30.  After an iteration whose completion is not JSON the context is    *)
(* the message about that completion and its decode error and nothing      *)
(* else: the text the context held before is no part of it, so repeated    *)
(* malformed completions do not make the context grow.                     *)
(***************************************************************************)
C30_Claim ==
    [][(StepTaken /\ Last'.outcome = "decode_error")
          => /\ context' = DecodeErrorContext("", Last'.completion)
             /\ Len(context') <= Len(DecodeErrorContext("", Last'.completion))]_vars

(***************************************************************************)
(* C31.  An iteration whose dispatch ends in an error run() recovers from  *)
(* appends the command to actions_taken only if the dispatch had stored    *)
(* the result in the memory before; in every other such iteration          *)
(* actions_taken and the memory are as they were before it.                *)
(***************************************************************************)
C31_Claim ==
    [][(StepTaken /\ Last'.outcome = "agent_error")
          => /\ actions_taken' # actions_taken => stored' # stored
             /\ stored' = stored
                  => actions_taken' = actions_taken /\ memory' = memory]_vars

(***************************************************************************)
(* C32.  A call of get_completion whose attempts have all met transient    *)
(* errors of the provider is still retrying: there is no bound on the      *)
(* number of retries, no error reaches run(), and the iteration does not   *)
(* end.                                                                    *)
(***************************************************************************)
C32_Original ==
    (probe.fn = "get_completion" /\ probe.last = "transient")
        => probe.state = "calling" /\ pc = "running"

\* the attempts that fit under the recursion limit
MaxAttempts == (RecursionLimit - BaseFrames - 1) \div 2

(***************************************************************************)
(* C32, amended.  get_completion retries after every transient error and   *)
(* has no retry counter, but every retry is a nested call: it returns only *)
(* when an attempt succeeds or is refused with InvalidRequestError (then   *)
(* it returns a dict), no transient error reaches run(), and when the      *)
(* retries reach the recursion limit of the interpreter RecursionError     *)
(* leaves get_completion and run().  While it retries, the iteration has   *)
(* not been counted.                                                       *)
(***************************************************************************)
C32_Amended ==
    probe.fn = "get_completion"
        => /\ probe.attempts <= MaxAttempts
           /\ probe.state = "returned" => probe.last \in {"success", "invalid_request"}
           /\ probe.state = "raised"
                => /\ probe.exc = "RecursionError"
                   /\ probe.last = "transient"
                   /\ probe.attempts = MaxAttempts
                   /\ pc = "crashed"
           /\ probe.state = "calling"
                => /\ pc = "running"
                   /\ probe.for = requested
                   /\ probe.last \in {"none", "transient"}

\* after an iteration that needed a retry, the retries of the next one
\* filled the call stack
C32_Witness ==
    /\ probe.fn = "get_completion"
    /\ probe.state = "raised" /\ probe.exc = "RecursionError"
    /\ pc = "crashed"
    /\ steps = 1 /\ requested = 1

(***************************************************************************)
(* C33.  During a call of run() the step count is the number of            *)
(* completions requested in it, and the number of records appended in it   *)
(* is at most the step count, which is at most max_steps; an iteration     *)
(* that is malformed or fails counts as a step and appends no record.      *)
(***************************************************************************)
C33_Budget ==
    [][/\ steps = requested /\ steps' = requested'
       /\ Len(actions_taken') <= steps'
       /\ steps' <= MaxSteps
       /\ (StepTaken /\ Last'.outcome # "recorded")
             => steps' = steps + 1 /\ actions_taken' = actions_taken]_vars

\* the budget was used up by a malformed, a failed and a recorded iteration
C33_Witness ==
    /\ pc = "returned" /\ steps = MaxSteps /\ requested = MaxSteps
    /\ \E i \in 1..Len(trace) : trace[i].outcome = "decode_error"
    /\ \E i \in 1..Len(trace) : trace[i].outcome = "agent_error"
    /\ Len(actions_taken) = steps - 2

(***************************************************************************)
(* C34.  A result that is not None, stored in the memory under a name n,   *)
(* comes back equal when a later argument is "{{n}}": the argument         *)
(* resolves without an error to the value that was stored.                 *)
(***************************************************************************)
C34_Claim ==
    (probe.fn = "roundtrip" /\ probe.applied /\ probe.result.stored)
        => probe.result.exc = "" /\ probe.result.val = probe.input.action_result

\* this transition builds the prompt of an iteration
PromptBuilt ==
    /\ probe' # probe
    /\ probe'.fn = "get_completion" /\ probe'.state = "calling" /\ probe'.attempts = 0

(***************************************************************************)
(* C35.  Building the prompt of an iteration changes neither the stored    *)
(* context, whatever its length, nor the memory, nor actions_taken; the    *)
(* prompt shows the stored context itself when that is at most the         *)
(* maximum length of the model long, and a retrieved segment otherwise.    *)
(***************************************************************************)
C35_Prompt ==
    [][PromptBuilt
          => /\ context' = context
             /\ memory' = memory
             /\ actions_taken' = actions_taken
             /\ IF Len(context) <= MaxContextLength
                THEN probe'.shown = context /\ ~probe'.retrieved
                ELSE /\ probe'.retrieved
                     /\ IsSubstring(probe'.shown, context)
                     /\ probe'.shown # context]_vars

\* a prompt that shows a segment of a context that is still whole, after a
\* prompt that showed a context of exactly the maximum length
C35_Witness ==
    /\ probe.fn = "get_completion" /\ probe.state = "calling"
    /\ probe.retrieved
    /\ Len(context) = 2 * MaxContextLength
    /\ Len(probe.shown) = MaxContextLength
    /\ requested = 2

(***************************************************************************)
(* C36.  In every state of the memory, the ones after an add_document that *)
(* raised part-way included, documents and document_store hold the same    *)
(* names, so to_prompt_string does not fail on a name without a summary;   *)
(* an add_document that raises leaves the store as it was before the call. *)
(***************************************************************************)
C36_Claim ==
    [][/\ Keys(memory'.documents) = Keys(memory'.document_store)
       /\ MemStep("to_prompt_string") => LastOp'.exc = ""
       /\ (MemStep("add_document") /\ LastOp'.exc # "") => memory' = memory]_vars

(***************************************************************************)
(* C37.  After add_document calls that returned, the router index that     *)
(* query_one asks holds one entry for every document name of the store,    *)
(* built from the text the document has now: no entry is left for a text   *)
(* that was replaced.                                                      *)
(***************************************************************************)
C37_Claim ==
    (\A i \in 1..Len(ops) : ops[i].op = "add_document" => ops[i].exc = "")
        => /\ Len(memory.router_index.docs) = Len(memory.documents)
           /\ \A i \in 1..Len(memory.documents) :
                 \E j \in 1..Len(memory.router_index.docs) :
                    memory.router_index.docs[j] = memory.documents[i][2]
           /\ \A j \in 1..Len(memory.router_index.docs) :
                 \E i \in 1..Len(memory.documents) :
                    memory.router_index.docs[j] = memory.documents[i][2]

\* the positions of the registered actions called name
Carrying(actions, name) == {i \in 1..Len(actions) : actions[i].name = name}

(***************************************************************************)
(* C38.  Dispatching one command calls at most one callable, at most once, *)
(* and stores at most one document, also when several registered actions  *)
(* carry the action name of the command: the first registered one is the   *)
(* one called.                                                             *)
(***************************************************************************)
C38_Once ==
    (probe.fn = "dispatch" /\ probe.applied)
        => /\ Len(probe.result.calls) <= 1
           /\ Len(probe.result.stored) <= 1
           /\ Len(probe.result.memory.documents) <= Len(probe.input.docs) + 1
           /\ \A i \in 1..Len(probe.result.calls) :
                 \A j \in Carrying(probe.input.actions, probe.input.chosen_action) :
                    probe.result.calls[i].index <= j
           /\ Carrying(probe.input.actions, probe.input.chosen_action) = {}
                => probe.result.calls = <<>>

\* two registered actions are called mkdir: the first one was called, once,
\* and its result was stored, once
C38_Witness ==
    /\ probe.fn = "dispatch" /\ probe.applied
    /\ probe.input.chosen_action = "mkdir"
    /\ Cardinality(Carrying(probe.input.actions, "mkdir")) = 2
    /\ Len(probe.result.calls) = 1 /\ probe.result.calls[1].index = 1
    /\ Len(probe.result.stored) = 1
    /\ probe.result.exc = ""

(***************************************************************************)
(* C39.  On a PlaywrightAgent, when the browser action of an iteration has *)
(* returned, the context section of the prompt the next iteration builds   *)
(* is the simplified view of the page, the text the agent's own context    *)
(* method produced for that action.                                        *)
(***************************************************************************)
C39_Claim ==
    [][(probe.fn = "browser" /\ probe.succeeded /\ StepTaken)
          => probe'.shown = probe.own]_vars

(***************************************************************************)
(* C40.  In the browser view of a PlaywrightAgent the element ids are the  *)
(* consecutive integers 1..n over the included elements (a skipped element *)
(* takes no id), and the id shown for an element is the key under which    *)
(* the current mapping holds it: the id written into the element's tag and *)
(* the object the lookup of the shown id returns are those of that line.   *)
(***************************************************************************)
C40_Ids ==
    (probe.fn = "browser" /\ probe.browser.has_mapping)
        => /\ Keys(probe.browser.mapping) = 1..Len(probe.browser.lines)
           /\ Len(probe.browser.lines)
                 = Cardinality({i \in 1..Len(probe.browser.page) :
                                   /\ \E k \in 1..Len(Elements(probe.browser.page)) :
                                         Elements(probe.browser.page)[k] = i
                                   /\ ~Skipped(probe.browser.page[i])})
           /\ \A i \in 1..Len(probe.browser.lines) :
                 /\ probe.browser.lines[i].id = i
                 /\ Get(probe.browser.mapping, probe.browser.lines[i].id).transformed
                       = probe.browser.lines[i].html_string
                 /\ IsSubstring(" id=\"" \o ToString(probe.browser.lines[i].id) \o "\">",
                                probe.browser.lines[i].html_string)
                 /\ \E e \in {GetObjectFromMapping(probe.browser,
                                                   PyInt(probe.browser.lines[i].id))} :
                       /\ e.exc = ""
                       /\ Transformed(probe.browser.page[e.object],
                                      probe.browser.lines[i].id)
                             = probe.browser.lines[i].html_string

\* a page with skipped elements is in view and the click on the element
\* shown as id 2 has acted on the element of that line
C40_Witness ==
    /\ probe.fn = "browser" /\ probe.browser.has_mapping
    /\ \E i \in 1..Len(probe.browser.page) : Skipped(probe.browser.page[i])
    /\ Len(probe.browser.lines) >= 2
    /\ probe.succeeded
    /\ Last.outcome = "recorded"
    /\ Last.completion.obj.command.action = "click_element"
    /\ probe.browser.acted # 0

====
